---- MODULE Spec2Model ----
(***************************************************************************)
(* Model of the vision matching engine of modulos/montagem.py:             *)
(*   find_image_transform  (ORB registration with a one-slot feature cache)*)
(*   check_slot            (per-slot ROI extraction, scoring and decision) *)
(*   InspecaoWindow.run_inspection (alignment, slot loop, final verdict)   *)
(*   SlotTrainingDialog.process_captured_image (training ROI extraction)   *)
(*                                                                         *)
(* Pixel contents are abstracted: an image is an identifier with a fixed   *)
(* shape and a fixed number of ORB descriptors; the values the OpenCV /    *)
(* skimage / classifier calls return for a ROI are inputs of the actions,  *)
(* drawn from small sets.  Real-valued scores are integers in thousandths  *)
(* ("milli"), component scores in hundredths ("centi"), so that            *)
(*      score >= ok_threshold / 100.0   <=>   milli >= 10 * ok_threshold.  *)
(***************************************************************************)
EXTENDS Integers, Sequences, FiniteSets, TLC

\* ------------------------------------------------------------------ bounds
\* longest slot list a model is loaded with
MaxSlots == 2
\* longest slot list built in the model editor
MaxEditorSlots == 3
\* width (shape[1]) and height (shape[0]) of every image
ImgW == 8
ImgH == 6

\* ------------------------------------------------------- program constants
\* len(desc) < 4, len(matches) < 4
MinDescriptors == 4
\* min(len(matches), 100)
MaxGoodMatches == 100
\* slot_data.get('ok_threshold', 70)
DefaultOkThreshold == 70
\* slot_data.get('scale_tolerance', 10.0)
DefaultScaleTolerance == 10

\* --------------------------------------------------------------- helpers
Min(a, b) == IF a <= b THEN a ELSE b
Max(a, b) == IF a >= b THEN a ELSE b

RECURSIVE SeqMin(_)
SeqMin(s) == IF Len(s) = 1 THEN s[1] ELSE Min(s[1], SeqMin(Tail(s)))

RECURSIVE SeqMax(_)
SeqMax(s) == IF Len(s) = 1 THEN s[1] ELSE Max(s[1], SeqMax(Tail(s)))

\* Python's None for each kind of value
NoneImg  == "None"
NoneHash == -1
NoneM    == [a |-> 0, tx |-> 0, ty |-> 0, den |-> 1]
NoneDesc == [of |-> "None", n |-> 0]
NoneKp   == [of |-> "None"]

\* ---------------------------------------------------------------- images
\* "E" is an array with size == 0; the others are BGR frames of shape
\* (ImgH, ImgW, 3).
Images == {"A", "B", "C", "D"}
EmptyImg == "E"

\* hash(gray.tobytes()) of each image
Fingerprint(img) == CASE img = "A" -> 101
                      [] img = "B" -> 202
                      [] img = "C" -> 303
                      [] img = "D" -> 404
                      [] OTHER     -> 0

\* number of ORB descriptors the detector finds in each image; 0 stands for
\* a featureless image, for which detectAndCompute returns descriptors None
DescCount(img) == CASE img = "A" -> 150
                    [] img = "B" -> 0
                    [] img = "C" -> 2
                    [] img = "D" -> 5
                    [] OTHER     -> 0

\* orb.detectAndCompute(gray, None) -> (keypoints, descriptors)
DetectAndCompute(img) ==
    [keypoints   |-> [of |-> img],
     descriptors |-> IF DescCount(img) = 0 THEN NoneDesc
                     ELSE [of |-> img, n |-> DescCount(img)]]

\* ---------------------------------------------------------- homographies
\* A homography maps (x, y) to ((a*x + tx) / den, (a*y + ty) / den);
\* a = 0 is None.
Homographies ==
    { [a |-> 1, tx |-> 0,   ty |-> 0, den |-> 1],
      [a |-> 1, tx |-> -2,  ty |-> 0, den |-> 1],
      [a |-> 1, tx |-> -10, ty |-> 0, den |-> 1],
      [a |-> 1, tx |-> 10,  ty |-> 0, den |-> 1],
      [a |-> 1, tx |-> 0,   ty |-> -10, den |-> 1],
      [a |-> 1, tx |-> 0,   ty |-> 10, den |-> 1],
      [a |-> 2, tx |-> 0,   ty |-> 0, den |-> 1] }

\* ---------------------------------------------- find_image_transform
\* What the calls inside one find_image_transform invocation produce:
\*   raise    where an exception is thrown inside the try block
\*            ("no", "cvt" = before the cache step, "match" = after it)
\*   nmatches number of cross-checked matches the matcher would return
\*   solverM  result of cv2.findHomography (NoneM = no matrix)
\*   inliers  np.sum(mask)
FitOracles ==
    { [raise |-> r, nmatches |-> n, solverM |-> m, inliers |-> 4] :
        r \in {"no"}, n \in {3, 6},
        m \in { NoneM, [a |-> 1, tx |-> 0, ty |-> 0, den |-> 1], [a |-> 1, tx |-> -10, ty |-> 0, den |-> 1] } }
    \cup
    { [raise |-> r, nmatches |-> 6, solverM |-> NoneM, inliers |-> 0] :
        r \in {"cvt", "match"} }

\* Outcomes with more cross-checked matches than the 100 that are kept.
ManyMatchOracles ==
    { [raise |-> "no", nmatches |-> 150, solverM |-> m, inliers |-> n] :
        m \in { NoneM, [a |-> 1, tx |-> 0, ty |-> 0, den |-> 1] }, n \in {4, 100} }

InitialCache == [image_hash |-> NoneHash, keypoints |-> NoneKp,
                 descriptors |-> NoneDesc]

\* CacheUsable without the tests for None: the fingerprint alone decides.
CacheUsable_HashOnly(cch, ref_hash) ==
    cch.image_hash = ref_hash

\* The cache test of lines 443-445.
CacheUsable(cch, ref_hash) ==
    /\ cch.image_hash = ref_hash
    /\ cch.keypoints # NoneKp
    /\ cch.descriptors # NoneDesc

\* matcher.match(desc_ref, desc_test) with crossCheck: at most one match
\* per descriptor of either set.
MatchCount(desc_ref, desc_test, o) ==
    Min(o.nmatches, Min(desc_ref.n, desc_test.n))

\* FitDecide reporting 0 instead of len(matches) when the matches are too few.
FitDecide_ZeroCount(desc_ref, desc_test, o) ==
    IF desc_ref = NoneDesc \/ desc_test = NoneDesc
    THEN [M |-> NoneM, count |-> 0, err |-> "no_descriptors"]
    ELSE IF desc_ref.n < MinDescriptors \/ desc_test.n < MinDescriptors
    THEN [M |-> NoneM, count |-> 0, err |-> "few_descriptors"]
    ELSE IF o.raise = "match"
    THEN [M |-> NoneM, count |-> 0, err |-> "exception"]
    ELSE
      LET nm   == MatchCount(desc_ref, desc_test, o)
          good == Min(nm, MaxGoodMatches)
      IN IF nm < MinDescriptors
         THEN [M |-> NoneM, count |-> 0, err |-> "few_matches"]
         ELSE IF o.solverM = NoneM
         THEN [M |-> NoneM, count |-> good, err |-> "no_homography"]
         ELSE [M |-> o.solverM, count |-> Min(o.inliers, good), err |-> "None"]

\* FitDecide reporting len(matches) instead of len(good_matches) when the
\* solver gives no matrix.
FitDecide_CountsAllMatches(desc_ref, desc_test, o) ==
    IF desc_ref = NoneDesc \/ desc_test = NoneDesc
    THEN [M |-> NoneM, count |-> 0, err |-> "no_descriptors"]
    ELSE IF desc_ref.n < MinDescriptors \/ desc_test.n < MinDescriptors
    THEN [M |-> NoneM, count |-> 0, err |-> "few_descriptors"]
    ELSE IF o.raise = "match"
    THEN [M |-> NoneM, count |-> 0, err |-> "exception"]
    ELSE
      LET nm   == MatchCount(desc_ref, desc_test, o)
          good == Min(nm, MaxGoodMatches)
      IN IF nm < MinDescriptors
         THEN [M |-> NoneM, count |-> nm, err |-> "few_matches"]
         ELSE IF o.solverM = NoneM
         THEN [M |-> NoneM, count |-> nm, err |-> "no_homography"]
         ELSE [M |-> o.solverM, count |-> Min(o.inliers, good), err |-> "None"]

\* Lines 465-516: from the two descriptor sets to the returned triple.
FitDecide(desc_ref, desc_test, o) ==
    IF desc_ref = NoneDesc \/ desc_test = NoneDesc
    THEN [M |-> NoneM, count |-> 0, err |-> "no_descriptors"]
    ELSE IF desc_ref.n < MinDescriptors \/ desc_test.n < MinDescriptors
    THEN [M |-> NoneM, count |-> 0, err |-> "few_descriptors"]
    ELSE IF o.raise = "match"
    THEN [M |-> NoneM, count |-> 0, err |-> "exception"]
    ELSE
      LET nm   == MatchCount(desc_ref, desc_test, o)
          good == Min(nm, MaxGoodMatches)
      IN IF nm < MinDescriptors
         THEN [M |-> NoneM, count |-> nm, err |-> "few_matches"]
         ELSE IF o.solverM = NoneM
         THEN [M |-> NoneM, count |-> good, err |-> "no_homography"]
         ELSE [M |-> o.solverM, count |-> Min(o.inliers, good), err |-> "None"]

\* Result record: M, count, err are the returned triple; cache is the value
\* of _ref_image_cache afterwards.  The remaining fields observe the call:
\*   reached      the cache step (line 440) was reached
\*   extracted    orb.detectAndCompute ran on the reference image
\*   kp_ref, desc_ref   the reference features handed to the matcher
\*   test_extracted   orb.detectAndCompute ran on the test image (line 460,
\*                the statement that follows the cache step)
\*   raised       an exception escaped the function
FitResult(t, cch, reached, extracted, kp, desc) ==
    [M |-> t.M, count |-> t.count, err |-> t.err, cache |-> cch,
     reached |-> reached, extracted |-> extracted,
     test_extracted |-> reached,
     kp_ref |-> kp, desc_ref |-> desc, raised |-> FALSE]

FitEarly(err, cch) ==
    FitResult([M |-> NoneM, count |-> 0, err |-> err], cch, FALSE, FALSE,
              NoneKp, NoneDesc)

\* FitBody with the features of the test image put in the cache.
FitBody_CachesTestFeatures(cch, img_ref, img_test, o) ==
    IF o.raise = "cvt"
    THEN FitEarly("exception", cch)
    ELSE
      LET ref_hash == Fingerprint(img_ref)
          hit      == CacheUsable(cch, ref_hash)
          fresh    == DetectAndCompute(img_ref)
          kp_ref   == IF hit THEN cch.keypoints ELSE fresh.keypoints
          desc_ref == IF hit THEN cch.descriptors ELSE fresh.descriptors
          test     == DetectAndCompute(img_test)
          cch2     == [image_hash |-> ref_hash, keypoints |-> test.keypoints,
                       descriptors |-> test.descriptors]
      IN FitResult(FitDecide(desc_ref, test.descriptors, o), cch2, TRUE, ~hit,
                   kp_ref, desc_ref)

\* The try block, lines 433-521.
FitBody(cch, img_ref, img_test, o) ==
    IF o.raise = "cvt"
    THEN FitEarly("exception", cch)
    ELSE
      LET ref_hash == Fingerprint(img_ref)
          hit      == CacheUsable(cch, ref_hash)
          fresh    == DetectAndCompute(img_ref)
          kp_ref   == IF hit THEN cch.keypoints ELSE fresh.keypoints
          desc_ref == IF hit THEN cch.descriptors ELSE fresh.descriptors
          cch2     == IF hit THEN cch
                      ELSE [image_hash |-> ref_hash, keypoints |-> kp_ref,
                            descriptors |-> desc_ref]
          desc_test == DetectAndCompute(img_test).descriptors
      IN FitResult(FitDecide(desc_ref, desc_test, o), cch2, TRUE, ~hit,
                   kp_ref, desc_ref)

\* find_image_transform without the test for a missing detector.
FindImageTransform_NoOrbTest(orbv, cch, img_ref, img_test, o) ==
    IF img_ref = NoneImg \/ img_test = NoneImg
       \/ img_ref = EmptyImg \/ img_test = EmptyImg
    THEN FitEarly("invalid_images", cch)
    ELSE FitBody(cch, img_ref, img_test, o)

FindImageTransform(orbv, cch, img_ref, img_test, o) ==
    IF ~orbv
    THEN FitEarly("orb_unavailable", cch)
    ELSE IF img_ref = NoneImg \/ img_test = NoneImg
            \/ img_ref = EmptyImg \/ img_test = EmptyImg
    THEN FitEarly("invalid_images", cch)
    ELSE FitBody(cch, img_ref, img_test, o)

\* ------------------------------------------------------------- slots
\* A slot record.  -1 in ok_threshold / scale_tolerance / correlation_threshold
\* / detection_threshold means the key is absent from the dict; tipo "absent"
\* likewise.  template is the state of the file at template_path:
\* "ok", "missing" (no path or no file) or "unreadable" (imread gives None).
MkSlot(x, y, w, h, tipo, use_ml, method, okthr, template, tol, tmethod) ==
    [id |-> 0, x |-> x, y |-> y, w |-> w, h |-> h, tipo |-> tipo,
     use_ml |-> use_ml, detection_method |-> method, ok_threshold |-> okthr,
     template |-> template, scale_tolerance |-> tol, template_method |-> tmethod,
     correlation_threshold |-> -1, detection_threshold |-> -1,
     exclusion_areas |-> << >>]

SlotPool ==
    { MkSlot(1, 1, 3, 2, "clip",   FALSE, "template_matching",  70, "ok",      10, "TM_CCOEFF_NORMED"),
      MkSlot(1, 1, 3, 2, "clip",   FALSE, "template_matching",  -1, "missing", 0,  "TM_SQDIFF_NORMED"),
      MkSlot(2, 1, 4, 3, "absent", FALSE, "histogram_analysis", 0,  "ok",      -1, "TM_CCOEFF_NORMED"),
      MkSlot(2, 1, 4, 3, "clip",   FALSE, "contour_analysis",   70, "ok",      -1, "TM_CCOEFF_NORMED"),
      MkSlot(1, 1, 3, 2, "clip",   FALSE, "image_comparison",   0,  "ok",      -1, "TM_CCOEFF_NORMED"),
      MkSlot(1, 1, 3, 2, "clip",   TRUE,  "template_matching",  70, "ok",      0,  "TM_SQDIFF_NORMED"),
      MkSlot(2, 1, 4, 3, "clip",   TRUE,  "histogram_analysis", 70, "ok",      25, "TM_CCOEFF_NORMED"),
      MkSlot(2, 1, 4, 3, "fita",   FALSE, "template_matching",  70, "ok",      10, "TM_CCOEFF_NORMED") }

\* ------------------------------------------------------------ check_slot
\* What the library calls made for one ROI return:
\*   ml / conf      MLSlotClassifier: "error" (load or predict raises),
\*                  "ok" (prediction 1) or "ng" (prediction 0); confidence
\*   raises         a cv2 / numpy / skimage call inside the method raises
\*   entropy        histogram entropy, in tenths of a bit
\*   hist_std       np.std(hist), in thousandths
\*   hist_max       np.max(hist), in hundredths
\*   contours       len(contours)
\*   area           contour_area / roi_area, in hundredths
\*   complexity     total_perimeter / contour_area, in tenths
\*   ssim, diff, hist   ssim_score, diff_score, hist_score, in hundredths
\*   tmpl_w, tmpl_h template_gray.shape
\*   vals           per candidate scale, the extreme of the matchTemplate map
\*                  (max, or min for TM_SQDIFF_NORMED), in thousandths
BaseOracle ==
    [ml |-> "error", conf |-> 0, raises |-> FALSE,
     entropy |-> 0, hist_std |-> 0, hist_max |-> 0,
     contours |-> 0, area |-> 0, complexity |-> 0,
     ssim |-> 0, diff |-> 0, hist |-> 0,
     tmpl_w |-> 2, tmpl_h |-> 2, vals |-> <<0, 0, 0>>]

MlOracles ==
    { [BaseOracle EXCEPT !.ml = p, !.conf = c] :
        p \in {"ok", "ng"}, c \in {300, 900} }

HistOracles ==
    { [BaseOracle EXCEPT !.entropy = e, !.hist_std = s, !.hist_max = 100] :
        e \in {0, 60, 130}, s \in {20, 150} }

ContourOracles ==
    { [BaseOracle EXCEPT !.contours = n, !.area = a, !.complexity = c] :
        n \in {0, 3, 12}, a \in {10, 120}, c \in {0, 99} }

CmpOracles ==
    { [BaseOracle EXCEPT !.ssim = s, !.diff = d, !.hist = h] :
        s \in {-100, 40, 100}, d \in {0, 100}, h \in {-50, 100} }

TmOracles ==
    { [BaseOracle EXCEPT !.tmpl_w = t, !.tmpl_h = 2, !.vals = v] :
        t \in {2, 3},
        v \in { <<-200, 650, 700>>, <<900, 900, 100>>, <<300, 0, 1000>> } }

SlotOracles ==
    MlOracles \cup HistOracles \cup ContourOracles \cup CmpOracles
    \cup TmOracles \cup { [BaseOracle EXCEPT !.raises = TRUE] }

\* int(n / d) for d > 0: int() truncates toward zero
PyInt(n, d) == IF n >= 0 THEN n \div d ELSE -((-n) \div d)

\* cv2.perspectiveTransform of one point followed by int()
Project(m, pt) ==
    << PyInt(m.a * pt[1] + m.tx, m.den), PyInt(m.a * pt[2] + m.ty, m.den) >>

\* len(range(n)[start:stop]): the extent of a numpy basic slice
PySliceLen(n, start, stop) ==
    LET norm(k) == IF k < 0 THEN Max(k + n, 0) ELSE Min(k, n)
    IN Max(norm(stop) - norm(start), 0)

\* int(v * pct / 100): int() truncates toward zero
ScaleDim(v, pct) ==
    IF v * pct >= 0 THEN (v * pct) \div 100 ELSE -((-(v * pct)) \div 100)

OkThresholdOf(slot) ==
    IF slot.ok_threshold = -1 THEN DefaultOkThreshold ELSE slot.ok_threshold

\* The decision taken against correlation_threshold when the slot has one.
MeetsOk_CorrelationThreshold(slot, milli) ==
    IF slot.correlation_threshold # -1
    THEN milli >= slot.correlation_threshold
    ELSE milli >= 10 * OkThresholdOf(slot)

\* The decision with > in place of >=.
MeetsOk_Strict(slot, milli) == milli > 10 * OkThresholdOf(slot)

\* passou = score >= ok_threshold / 100.0, score in thousandths
MeetsOk(slot, milli) == milli >= 10 * OkThresholdOf(slot)

\* lines 681-686
HistogramScore(o) ==
    LET entropy_score      == Min(o.entropy, 100)
        distribution_score == Min(o.hist_std, 100)
        intensity_score    == Min(2 * o.hist_max, 100)
    IN 5 * entropy_score + 3 * distribution_score + 2 * intensity_score

\* lines 745-750; 1 / (complexity + 0.1) in hundredths is 1000 / (c + 1)
ContourScore(o) ==
    LET area_ratio          == Min(o.area, 100)
        contour_count_score == Min(10 * o.contours, 100)
        complexity_score    == Min(100, 1000 \div (o.complexity + 1))
    IN 4 * area_ratio + 3 * contour_count_score + 3 * complexity_score

\* line 811
ComparisonScore(o) == 5 * o.ssim + 3 * o.diff + 2 * o.hist

\* Scales without the test scale_tolerance > 0: always three candidates.
Scales_AlwaysThree(slot) ==
    LET tol == IF slot.scale_tolerance = -1 THEN DefaultScaleTolerance
               ELSE slot.scale_tolerance
    IN << 100 - tol, 100, 100 + tol >>

\* lines 858-862, in percent
Scales(slot) ==
    LET tol == IF slot.scale_tolerance = -1 THEN DefaultScaleTolerance
               ELSE slot.scale_tolerance
    IN IF tol > 0 THEN << 100 - tol, 100, 100 + tol >> ELSE << 100 >>

\* ScaleStep with >= in the test of line 893: a later scale that only
\* equals the best value replaces it.
ScaleStep_LaterTieWins(acc, scale, val, slot, o, roi_w, roi_h) ==
    LET scaled_w == ScaleDim(o.tmpl_w, scale)
        scaled_h == ScaleDim(o.tmpl_h, scale)
        current_val == IF slot.template_method = "TM_SQDIFF_NORMED"
                       THEN 1000 - val ELSE val
    IN IF scaled_w <= 0 \/ scaled_h <= 0 \/ scaled_w > roi_w \/ scaled_h > roi_h
       THEN acc
       ELSE IF current_val >= acc[1] THEN << current_val, scale >> ELSE acc

\* One iteration of the scale loop (lines 868-895) on the pair
\* acc = <<max_val, best_scale>>.
ScaleStep(acc, scale, val, slot, o, roi_w, roi_h) ==
    LET scaled_w == ScaleDim(o.tmpl_w, scale)
        scaled_h == ScaleDim(o.tmpl_h, scale)
        current_val == IF slot.template_method = "TM_SQDIFF_NORMED"
                       THEN 1000 - val ELSE val
    IN IF scaled_w <= 0 \/ scaled_h <= 0 \/ scaled_w > roi_w \/ scaled_h > roi_h
       THEN acc
       ELSE IF current_val > acc[1] THEN << current_val, scale >> ELSE acc

RECURSIVE ScaleLoop(_, _, _, _, _, _, _)
ScaleLoop(acc, k, scales, slot, o, roi_w, roi_h) ==
    IF k > Len(scales) THEN acc
    ELSE ScaleLoop(ScaleStep(acc, scales[k], o.vals[k], slot, o, roi_w, roi_h),
                   k + 1, scales, slot, o, roi_w, roi_h)

\* The returned tuple (passou, correlation, pixels, corners, bbox, log_msgs)
\* plus observations of the call: path (which return statement), the shape
\* of the ROI that was sliced out, whether a ROI was handed to a scoring
\* method, the candidate scales and best_scale of the template scale loop
\* (<< >> and 0 when the loop did not run), and the threshold and
\* threshold_source the diagnostic text prints (-1 and "none" when the
\* message has none).
Ret(passou, score, corners, bbox, log, path, roi_w, roi_h, scored) ==
    [passou |-> passou, score |-> score, pixels |-> 0, corners |-> corners,
     bbox |-> bbox, log |-> log, path |-> path,
     roi_w |-> roi_w, roi_h |-> roi_h, scored |-> scored, raised |-> FALSE,
     scales |-> << >>, best_scale |-> 0,
     threshold |-> -1, threshold_source |-> "none"]

\* log_msgs.append(msg); return False, 0.0, 0, corners, bbox, log_msgs
\* c holds the locals corners, bbox, log_msgs and the shape of roi.
FailRet(c, msg, path, scored) ==
    Ret(FALSE, 0, c.corners, c.bbox, Append(c.log, msg), path,
        c.roi_w, c.roi_h, scored)

\* threshold and threshold_source of the diagnostic text, in thousandths.
\* correlation_threshold is kept in thousandths, detection_threshold in
\* thousandths of the stored number (a percentage where the code divides it
\* by 100, a fraction where it does not).
ThresholdOf(slot, method) ==
    LET dt(default) == IF slot.detection_threshold = -1 THEN default
                       ELSE slot.detection_threshold
    IN CASE method = "histogram_analysis" ->
              IF slot.correlation_threshold # -1
              THEN << slot.correlation_threshold, "correlation_threshold" >>
              ELSE << dt(30000) \div 100, "detection_threshold" >>
         [] method = "contour_analysis" -> << dt(500), "none" >>
         [] method = "image_comparison" -> << dt(700), "none" >>
         [] OTHER ->
              IF slot.correlation_threshold # -1
              THEN << slot.correlation_threshold, "correlation_threshold" >>
              ELSE << dt(70000) \div 100, "detection_threshold" >>

\* ScoredRet with the score lowered by the share of the ROI that the slot's
\* exclusion areas cover.
ScoredRet_ExclusionsMasked(slot, c, score, msg, path, method) ==
    LET RECURSIVE Covered(_)
        Covered(k) == IF k = 0 THEN 0
                      ELSE slot.exclusion_areas[k].w * slot.exclusion_areas[k].h
                           + Covered(k - 1)
        area   == c.roi_w * c.roi_h
        masked == Min(area, Covered(Len(slot.exclusion_areas)))
        kept   == IF score > 0 THEN (score * (area - masked)) \div area ELSE score
    IN [Ret(MeetsOk(slot, kept), kept, c.corners, c.bbox, Append(c.log, msg),
            path, c.roi_w, c.roi_h, TRUE)
        EXCEPT !.threshold = ThresholdOf(slot, method)[1],
               !.threshold_source = ThresholdOf(slot, method)[2]]

\* passou = score >= ok_threshold; log_msgs.append(...); return passou, score, ...
ScoredRet(slot, c, score, msg, path, method) ==
    [Ret(MeetsOk(slot, score), score, c.corners, c.bbox, Append(c.log, msg),
         path, c.roi_w, c.roi_h, TRUE)
     EXCEPT !.threshold = ThresholdOf(slot, method)[1],
            !.threshold_source = ThresholdOf(slot, method)[2]]

\* detection_method == 'histogram_analysis'
HistogramBranch(slot, o, c) ==
    IF o.raises
    THEN FailRet(c, "histogram_error", "method_error", TRUE)
    ELSE ScoredRet(slot, c, HistogramScore(o), "histogram", "histogram",
                   "histogram_analysis")

\* The template loop and decision that follow the method dispatch.
TemplateSweep(slot, o, c) ==
    LET best == ScaleLoop(<< 0, 100 >>, 1, Scales(slot), slot, o, c.roi_w, c.roi_h)
    IN [ScoredRet(slot, c, best[1], "correlation", "template", "template_matching")
        EXCEPT !.scales = Scales(slot), !.best_scale = best[2]]

\* A contour branch whose "no contour" path does not return.
ContourBranch_FallsThrough(slot, o, c) ==
    IF o.raises
    THEN FailRet(c, "contour_error", "method_error", TRUE)
    ELSE IF o.contours = 0
    THEN TemplateSweep(slot, o, [c EXCEPT !.log = Append(c.log, "no_contour")])
    ELSE ScoredRet(slot, c, ContourScore(o), "contour", "contour",
                   "contour_analysis")

\* detection_method == 'contour_analysis'
ContourBranch(slot, o, c) ==
    IF o.raises
    THEN FailRet(c, "contour_error", "method_error", TRUE)
    ELSE IF o.contours = 0
    THEN FailRet(c, "no_contour", "no_contour", TRUE)
    ELSE ScoredRet(slot, c, ContourScore(o), "contour", "contour",
                   "contour_analysis")

\* detection_method == 'image_comparison'
ComparisonBranch(slot, o, c) ==
    IF slot.template = "missing"
    THEN FailRet(c, "comparison_template_not_found", "no_template", FALSE)
    ELSE IF slot.template = "unreadable"
    THEN FailRet(c, "comparison_template_load_error", "no_template", FALSE)
    ELSE IF o.raises
    THEN FailRet(c, "comparison_error", "method_error", TRUE)
    ELSE ScoredRet(slot, c, ComparisonScore(o), "comparison", "comparison",
                   "image_comparison")

\* else: template_matching, any other or no detection_method
TemplateBranch(slot, o, c) ==
    IF slot.template = "missing"
    THEN FailRet(c, "template_not_found", "no_template", FALSE)
    ELSE IF slot.template = "unreadable"
    THEN FailRet(c, "template_load_error", "no_template", FALSE)
    ELSE IF o.raises
    THEN FailRet(c, "error", "error", TRUE)
    ELSE TemplateSweep(slot, o, c)

\* The if / elif / else on detection_method.
MethodDispatch(slot, o, c) ==
    CASE slot.detection_method = "histogram_analysis" -> HistogramBranch(slot, o, c)
      [] slot.detection_method = "contour_analysis"   -> ContourBranch(slot, o, c)
      [] slot.detection_method = "image_comparison"   -> ComparisonBranch(slot, o, c)
      [] OTHER                                        -> TemplateBranch(slot, o, c)

\* A clip body that scores with template matching after a classifier error,
\* whatever detection_method says.
ClipBody_TemplateAfterMlError(slot, o, c) ==
    IF slot.use_ml /\ o.ml # "error"
    THEN Ret(o.ml = "ok", o.conf, c.corners, c.bbox, Append(c.log, "ml"),
             "ml", c.roi_w, c.roi_h, TRUE)
    ELSE IF slot.use_ml
    THEN TemplateBranch(slot, o, [c EXCEPT !.log = Append(c.log, "ml_error")])
    ELSE MethodDispatch(slot, o, c)

\* The body of `if slot_type == 'clip':` -- the classifier when configured,
\* then the method dispatch.
ClipBody(slot, o, c) ==
    IF slot.use_ml /\ o.ml # "error"
    THEN Ret(o.ml = "ok", o.conf, c.corners, c.bbox, Append(c.log, "ml"),
             "ml", c.roi_w, c.roi_h, TRUE)
    ELSE IF slot.use_ml
    THEN MethodDispatch(slot, o, [c EXCEPT !.log = Append(c.log, "ml_error")])
    ELSE MethodDispatch(slot, o, c)

CheckSlot(slot, m, o) ==
    LET slot_type == IF slot.tipo = "absent" THEN "clip" ELSE slot.tipo
        original_corners == << <<slot.x, slot.y>>, <<slot.x + slot.w, slot.y>>,
                               <<slot.x + slot.w, slot.y + slot.h>>,
                               <<slot.x, slot.y + slot.h>> >>
        corners  == IF m # NoneM
                    THEN [k \in 1..4 |-> Project(m, original_corners[k])]
                    ELSE original_corners
        x_coords == [k \in 1..4 |-> corners[k][1]]
        y_coords == [k \in 1..4 |-> corners[k][2]]
        x == IF m # NoneM THEN Max(0, SeqMin(x_coords)) ELSE slot.x
        y == IF m # NoneM THEN Max(0, SeqMin(y_coords)) ELSE slot.y
        w == IF m # NoneM THEN Min(ImgW - x, SeqMax(x_coords) - x) ELSE slot.w
        h == IF m # NoneM THEN Min(ImgH - y, SeqMax(y_coords) - y) ELSE slot.h
        log0 == IF m # NoneM THEN << "transformed" >> ELSE << "original_coords" >>
        bbox == << x, y, w, h >>
        c == [corners |-> corners, bbox |-> bbox, log |-> log0,
              roi_w |-> PySliceLen(ImgW, x, x + w),
              roi_h |-> PySliceLen(ImgH, y, y + h)]
    IN
    IF x < 0 \/ y < 0 \/ x + w > ImgW \/ y + h > ImgH
    THEN FailRet([c EXCEPT !.roi_w = 0, !.roi_h = 0], "roi_out_of_bounds",
                 "out_of_bounds", FALSE)
    ELSE IF c.roi_w * c.roi_h = 0
    THEN FailRet(c, "roi_empty", "roi_empty", FALSE)
    ELSE IF slot_type # "clip"
    THEN FailRet(c, "fita_unsupported", "unsupported", FALSE)
    ELSE ClipBody(slot, o, c)

\* ---------------------------------------------------- transform_rectangle
\* A rectangle (x, y, w, h); the empty tuple stands for None.
NoneRect == << >>

\* Homographies handed to transform_rectangle: (x, y) goes to
\* ((a*x + tx) / den, (a*y + ty) / den), so that projected corners fall
\* between pixels; a = 0 is None.
RectHomographies ==
    { [a |-> 1,  tx |-> 0,   ty |-> 0,  den |-> 1],
      [a |-> 1,  tx |-> -10, ty |-> 0,  den |-> 1],
      [a |-> 1,  tx |-> -3,  ty |-> -1, den |-> 2],
      [a |-> 3,  tx |-> 1,   ty |-> 1,  den |-> 2],
      [a |-> 2,  tx |-> 0,   ty |-> 0,  den |-> 1],
      [a |-> 1,  tx |-> 0,   ty |-> 20, den |-> 1],
      [a |-> -1, tx |-> 8,   ty |-> 6,  den |-> 1],
      [a |-> 0,  tx |-> 0,   ty |-> 0,  den |-> 1] }

\* Rectangles of slots drawn on the reference image.
RectPool ==
    { << x, y, w, h >> : x \in {0, 2, 7}, y \in {0, 3}, w \in {1, 3, 9}, h \in {2, 7} }

\* Numerators over m.den of the four transformed corners' x (k = 1) or
\* y (k = 2) coordinates.
RectCoords(rect, m, k) ==
    LET t == IF k = 1 THEN m.tx ELSE m.ty
        lo == rect[k]
        hi == rect[k] + rect[k + 2]
    IN IF k = 1 THEN << m.a * lo + t, m.a * hi + t, m.a * hi + t, m.a * lo + t >>
       ELSE << m.a * lo + t, m.a * lo + t, m.a * hi + t, m.a * hi + t >>

\* transform_rectangle without the test for a non-positive size.
TransformRectangle_NoSizeTest(rect, m, raises) ==
    IF m.a = 0 THEN NoneRect
    ELSE IF raises THEN NoneRect
    ELSE
      LET x_min == Max(0, PyInt(SeqMin(RectCoords(rect, m, 1)), m.den))
          y_min == Max(0, PyInt(SeqMin(RectCoords(rect, m, 2)), m.den))
          x_max == Min(ImgW, PyInt(SeqMax(RectCoords(rect, m, 1)), m.den))
          y_max == Min(ImgH, PyInt(SeqMax(RectCoords(rect, m, 2)), m.den))
      IN << x_min, y_min, x_max - x_min, y_max - y_min >>

\* transform_rectangle with the largest coordinates rounded up instead of
\* truncated.
TransformRectangle_CeilsMax(rect, m, raises) ==
    IF m.a = 0 THEN NoneRect
    ELSE IF raises THEN NoneRect
    ELSE
      LET x_min == Max(0, PyInt(SeqMin(RectCoords(rect, m, 1)), m.den))
          y_min == Max(0, PyInt(SeqMin(RectCoords(rect, m, 2)), m.den))
          x_max == Min(ImgW, -((-SeqMax(RectCoords(rect, m, 1))) \div m.den))
          y_max == Min(ImgH, -((-SeqMax(RectCoords(rect, m, 2))) \div m.den))
          new_w == x_max - x_min
          new_h == y_max - y_min
      IN IF new_w <= 0 \/ new_h <= 0 THEN NoneRect
         ELSE << x_min, y_min, new_w, new_h >>

\* transform_rectangle(rect, M, img_shape) with img_shape = (ImgH, ImgW);
\* raises: cv2.perspectiveTransform or a conversion raises.
TransformRectangle(rect, m, raises) ==
    IF m.a = 0 THEN NoneRect
    ELSE IF raises THEN NoneRect
    ELSE
      LET x_min == Max(0, PyInt(SeqMin(RectCoords(rect, m, 1)), m.den))
          y_min == Max(0, PyInt(SeqMin(RectCoords(rect, m, 2)), m.den))
          x_max == Min(ImgW, PyInt(SeqMax(RectCoords(rect, m, 1)), m.den))
          y_max == Min(ImgH, PyInt(SeqMax(RectCoords(rect, m, 2)), m.den))
          new_w == x_max - x_min
          new_h == y_max - y_min
      IN IF new_w <= 0 \/ new_h <= 0 THEN NoneRect
         ELSE << x_min, y_min, new_w, new_h >>

\* =================================================================== state
VARIABLES
    orb,                   \* module-level detector: TRUE = object, FALSE = None
    ref_image_cache,       \* module-level _ref_image_cache
    slots,                 \* InspecaoWindow.slots
    img_reference,         \* InspecaoWindow.img_reference
    img_test,              \* InspecaoWindow.img_test
    inspection_results,    \* InspecaoWindow.inspection_results
    inspection_status_var, \* InspecaoWindow.inspection_status_var
    pc,                    \* position inside run_inspection
    i,                     \* index of the slot loop
    M,                     \* homography of the running inspection
    overall_ok,            \* local overall_ok of run_inspection
    editor,                \* MontagemWindow: img_original, slots,
                           \* selected_slot_id, model_modified
    threads,               \* per thread, the position and locals of a
                           \* find_image_transform call in progress
    camera_cache,          \* module-level _camera_cache: index -> capture
    camera_last_used,      \* module-level _camera_last_used: index -> time
    clock,                 \* what time.time() returns
    obs                    \* what the last operation did and returned

vars == << orb, ref_image_cache, slots, img_reference, img_test,
           inspection_results, inspection_status_var, pc, i, M, overall_ok,
           editor, threads, camera_cache, camera_last_used, clock, obs >>

NoSlot == [id |-> -1]
NoRet == [path |-> "none"]
NoFit == [caller |-> "none"]
NoSummary == [final_status |-> "none"]
NoTrain == [outcome |-> "none"]

NoObs == [kind |-> "none", fit |-> NoFit, calls |-> << >>,
          summary |-> NoSummary, train |-> NoTrain,
          slot |-> NoSlot, m |-> NoneM, o |-> BaseOracle, ret |-> NoRet,
          matches |-> << >>]

\* A dict with no key.
EmptyDict == [k \in {} |-> 0]

\* MontagemWindow.__init__ (lines 2906-2910); img_original is None until an
\* image is loaded.
EditorInit == [img_original |-> NoneImg, slots |-> << >>,
               selected_slot_id |-> -1, model_modified |-> FALSE]

Threads == {1, 2}

\* No find_image_transform call in progress.
ThreadIdle == [pc |-> "idle", img_ref |-> NoneImg,
               kp_ref |-> NoneKp, desc_ref |-> NoneDesc]

ThreadsInit == [t \in Threads |-> ThreadIdle]

\* Observation of one find_image_transform call: its arguments, the cache
\* before the call and the result record.
FitObs(caller, orbv, cch, img_ref, img_test_, o, r) ==
    [caller |-> caller, orb |-> orbv, before |-> cch, img_ref |-> img_ref,
     img_test |-> img_test_, o |-> o, r |-> r]

\* Slot lists a model can hold: up to MaxSlots slots of the pool, ids 1..n.
RECURSIVE SeqsUpTo(_, _)
SeqsUpTo(S, n) ==
    IF n = 0 THEN { << >> }
    ELSE LET shorter == SeqsUpTo(S, n - 1)
         IN shorter \cup { Append(q, e) : q \in { t \in shorter : Len(t) = n - 1 }, e \in S }

WithIds(q) == [k \in 1..Len(q) |-> [q[k] EXCEPT !.id = k]]

\* Slots of the models the inspection window is loaded with.
RunSlotPool ==
    { MkSlot(1, 1, 3, 2, "clip",   FALSE, "template_matching",  70, "ok", 10, "TM_CCOEFF_NORMED"),
      MkSlot(2, 1, 4, 3, "absent", FALSE, "histogram_analysis", 70, "ok", -1, "TM_CCOEFF_NORMED"),
      MkSlot(2, 1, 4, 3, "fita",   FALSE, "template_matching",  70, "ok", 10, "TM_CCOEFF_NORMED") }

\* The slot lists of the models: up to MaxSlots different slots of the pool,
\* in any order.
ModelSlots ==
    { WithIds(q) : q \in { s \in SeqsUpTo(RunSlotPool, MaxSlots) :
                             \A j, k \in 1..Len(s) : j # k => s[j] # s[k] } }

ReferenceImages == {"A", "B"}
TestImages == {"A", "C"}

Init ==
    /\ orb \in BOOLEAN
    /\ ref_image_cache = InitialCache
    /\ slots = << >>
    /\ img_reference = NoneImg
    /\ img_test = NoneImg
    /\ inspection_results = << >>
    /\ inspection_status_var = "--"
    /\ pc = "idle"
    /\ i = 0
    /\ M = NoneM
    /\ overall_ok = TRUE
    /\ editor = EditorInit
    /\ threads = ThreadsInit
    /\ camera_cache = EmptyDict
    /\ camera_last_used = EmptyDict
    /\ clock = 0
    /\ obs = NoObs

\* SystemConfigDialog.save_config: the detector is created again; when
\* ORB_create raises, orb keeps its previous value.
SaveConfig ==
    /\ pc = "idle"
    /\ orb' \in {TRUE, orb}
    /\ obs' = [NoObs EXCEPT !.kind = "save_config"]
    /\ UNCHANGED << camera_cache, camera_last_used, clock, editor, threads, ref_image_cache, slots, img_reference, img_test,
                    inspection_results, inspection_status_var, pc, i, M, overall_ok >>

\* InspecaoWindow.load_model_from_db, successful load
LoadModelFromDb ==
    /\ pc = "idle"
    /\ img_reference' \in ReferenceImages
    /\ slots' \in ModelSlots
    /\ inspection_results' = << >>
    /\ obs' = [NoObs EXCEPT !.kind = "load_model"]
    /\ UNCHANGED << camera_cache, camera_last_used, clock, editor, threads, orb, ref_image_cache, img_test, inspection_status_var,
                    pc, i, M, overall_ok >>

\* InspecaoWindow.load_test_image: imread may give None, and then the
\* ValueError is raised before the results are cleared.
LoadTestImage ==
    /\ pc = "idle"
    /\ img_test' \in TestImages \cup {NoneImg}
    /\ inspection_results' = IF img_test' = NoneImg THEN inspection_results ELSE << >>
    /\ obs' = [NoObs EXCEPT !.kind = "load_test_image"]
    /\ UNCHANGED << camera_cache, camera_last_used, clock, editor, threads, orb, ref_image_cache, slots, img_reference,
                    inspection_status_var, pc, i, M, overall_ok >>

\* ----------------------------------------------------------- run_inspection
\* Inputs of the inspection's library calls.
RunSlotOracles ==
    { [BaseOracle EXCEPT !.raises = TRUE],
      [BaseOracle EXCEPT !.entropy = 130, !.hist_std = 150, !.hist_max = 100,
                         !.vals = <<900, 900, 100>>],
      [BaseOracle EXCEPT !.entropy = 0, !.hist_std = 20, !.hist_max = 100,
                         !.vals = <<300, 0, 100>>] }

\* lines 7140-7148: the initial validation fails
ValidationFails == slots = << >> \/ img_reference = NoneImg \/ img_test = NoneImg

\* The loop body with a handler that throws the collected results away.
SlotIteration_ResetOnError(results, ok, slot, r) ==
    IF ~r.passou /\ slot.tipo = "absent"
    THEN [results |-> << >>, overall_ok |-> ok, error |-> TRUE]
    ELSE [results |-> Append(results, [slot_id |-> slot.id, passou |-> r.passou,
                                       score |-> r.score, bbox |-> r.bbox]),
          overall_ok |-> ok /\ r.passou,
          error |-> FALSE]

\* The loop body with a handler that fails the verdict for the slot it drops.
SlotIteration_ErrorFailsVerdict(results, ok, slot, r) ==
    IF ~r.passou /\ slot.tipo = "absent"
    THEN [results |-> results, overall_ok |-> FALSE, error |-> TRUE]
    ELSE [results |-> Append(results, [slot_id |-> slot.id, passou |-> r.passou,
                                       score |-> r.score, bbox |-> r.bbox]),
          overall_ok |-> ok /\ r.passou,
          error |-> FALSE]

\* Body of the slot loop, lines 7231-7258, for the slot and the value r that
\* check_slot returned for it.  slot['tipo'] at line 7237 raises KeyError for
\* a slot without that key; the handler at 7256 prints and goes on.
SlotIteration(results, ok, slot, r) ==
    IF ~r.passou /\ slot.tipo = "absent"
    THEN [results |-> results, overall_ok |-> ok, error |-> TRUE]
    ELSE [results |-> Append(results, [slot_id |-> slot.id, passou |-> r.passou,
                                       score |-> r.score, bbox |-> r.bbox]),
          overall_ok |-> ok /\ r.passou,
          error |-> FALSE]

\* lines 7342-7357
Summary(results, ok) ==
    LET total  == Len(results)
        passed == Cardinality({ k \in 1..Len(results) : results[k].passou })
    IN [total |-> total, passed |-> passed, failed |-> total - passed,
        final_status |-> IF ok THEN "APROVADO" ELSE "REPROVADO"]

\* run_inspection going on to the slot loop without a homography.
AlignmentFailed_Never(m) == FALSE

\* line 7174
AlignmentFailed(m) == m = NoneM

\* A run_inspection that clears the results before it looks at M.
ResultsAfterAlignment_AlwaysReset(results, m) == << >>

\* self.inspection_results once find_image_transform has returned m: the
\* return of lines 7174-7198 comes before the reset of line 7209.
ResultsAfterAlignment(results, m) == IF m = NoneM THEN results ELSE << >>

\* run_inspection up to the start of the slot loop (lines 7130-7221)
RunInspectionStart ==
    /\ pc = "idle"
    /\ IF ValidationFails
       THEN /\ inspection_status_var' = "ERRO"
            /\ obs' = [NoObs EXCEPT !.kind = "inspection_invalid"]
            /\ UNCHANGED << camera_cache, camera_last_used, clock, editor, threads, orb, ref_image_cache, slots, img_reference, img_test,
                            inspection_results, pc, i, M, overall_ok >>
       ELSE \E o \in FitOracles :
            LET r == FindImageTransform(orb, ref_image_cache, img_reference, img_test, o)
                f == FitObs("run_inspection", orb, ref_image_cache, img_reference,
                            img_test, o, r)
            IN /\ ref_image_cache' = r.cache
               /\ IF AlignmentFailed(r.M)
                  THEN /\ inspection_status_var' = "FALHA DE ALINHAMENTO"
                       /\ obs' = [NoObs EXCEPT !.kind = "inspection_align_fail", !.fit = f]
                       /\ inspection_results' =
                            ResultsAfterAlignment(inspection_results, r.M)
                       /\ UNCHANGED << pc, i, M, overall_ok >>
                  ELSE /\ inspection_status_var' = "INSPECIONANDO..."
                       /\ overall_ok' = TRUE
                       /\ inspection_results' =
                            ResultsAfterAlignment(inspection_results, r.M)
                       /\ pc' = "loop"
                       /\ i' = 1
                       /\ M' = r.M
                       /\ obs' = [NoObs EXCEPT !.kind = "inspection_running", !.fit = f]
               /\ UNCHANGED << camera_cache, camera_last_used, clock, editor, threads, orb, slots, img_reference, img_test >>

\* A check_slot that stores the rectangle it evaluated back into slot_data.
SlotDataAfterCheck_StoresBbox(slot, r) ==
    [slot EXCEPT !.x = r.bbox[1], !.y = r.bbox[2], !.w = r.bbox[3], !.h = r.bbox[4]]

\* The dict slot_data after check_slot returned r: the function reads it
\* with [] and .get() and rebinds only its own locals x, y, w, h.
SlotDataAfterCheck(slot, r) == slot

\* one iteration of the slot loop (lines 7223-7258); check_slot is handed
\* the slot dict itself, the test image and M
RunInspectionSlot ==
    /\ pc = "loop"
    /\ i <= Len(slots)
    /\ \E o \in RunSlotOracles :
         LET r  == CheckSlot(slots[i], M, o)
             it == SlotIteration(inspection_results, overall_ok, slots[i], r)
         IN /\ inspection_results' = it.results
            /\ overall_ok' = it.overall_ok
            /\ slots' = [slots EXCEPT ![i] = SlotDataAfterCheck(@, r)]
            /\ obs' = [obs EXCEPT !.calls =
                          Append(@, [index |-> i, ret |-> r, error |-> it.error])]
    /\ inspection_status_var' = "SLOT"
    /\ i' = i + 1
    /\ UNCHANGED << camera_cache, camera_last_used, clock, editor, threads, orb, ref_image_cache, img_reference, img_test, pc, M >>

\* the final result (lines 7336-7364); the locals i, M and overall_ok end
\* with the call
RunInspectionFinish ==
    /\ pc = "loop"
    /\ i > Len(slots)
    /\ inspection_status_var' = IF overall_ok THEN "OK" ELSE "NG"
    /\ obs' = [obs EXCEPT !.kind = "inspection_done",
                          !.summary = Summary(inspection_results, overall_ok)]
    /\ pc' = "idle"
    /\ i' = 0
    /\ M' = NoneM
    /\ overall_ok' = TRUE
    /\ UNCHANGED << camera_cache, camera_last_used, clock, editor, threads, orb, ref_image_cache, slots, img_reference, img_test,
                    inspection_results >>

\* ------------------------------------------ process_captured_image
\* Lines 1665-1694: the rectangle the training dialog cuts out of the
\* captured image; direct is TRUE when the slot's own coordinates are used
\* because no homography was found.
TrainingRoi(slot, m) ==
    LET cs == << <<slot.x, slot.y>>, <<slot.x + slot.w, slot.y>>,
                 <<slot.x + slot.w, slot.y + slot.h>>, <<slot.x, slot.y + slot.h>> >>
        tc == [k \in 1..4 |-> Project(m, cs[k])]
        x0 == IF m = NoneM THEN slot.x ELSE SeqMin([k \in 1..4 |-> tc[k][1]])
        y0 == IF m = NoneM THEN slot.y ELSE SeqMin([k \in 1..4 |-> tc[k][2]])
        w0 == IF m = NoneM THEN slot.w ELSE SeqMax([k \in 1..4 |-> tc[k][1]]) - x0
        h0 == IF m = NoneM THEN slot.h ELSE SeqMax([k \in 1..4 |-> tc[k][2]]) - y0
        x  == Max(0, x0)
        y  == Max(0, y0)
        w  == Min(w0, ImgW - x)
        h  == Min(h0, ImgH - y)
    IN [direct |-> m = NoneM, x |-> x, y |-> y, w |-> w, h |-> h,
        outcome |-> IF w <= 0 \/ h <= 0 THEN "invalid_roi" ELSE "roi"]

TrainFitOracles ==
    { o \in FitOracles : o.raise = "no" /\ o.nmatches = 6 }

\* SlotTrainingDialog.process_captured_image for the dialog's slot, the
\* editor's reference image img_original and a captured image.
ProcessCapturedImage ==
    /\ pc = "idle"
    /\ \E img_original \in {"A", NoneImg}, image \in TestImages,
          slot \in RunSlotPool, o \in TrainFitOracles :
         IF img_original = NoneImg
         THEN /\ obs' = [NoObs EXCEPT !.kind = "training",
                                      !.train = [outcome |-> "no_reference"]]
              /\ UNCHANGED ref_image_cache
         ELSE LET r == FindImageTransform(orb, ref_image_cache, img_original, image, o)
              IN /\ ref_image_cache' = r.cache
                 /\ obs' = [NoObs EXCEPT !.kind = "training", !.slot = slot,
                                         !.m = r.M, !.train = TrainingRoi(slot, r.M)]
    /\ UNCHANGED << camera_cache, camera_last_used, clock, editor, threads, orb, slots, img_reference, img_test, inspection_results,
                    inspection_status_var, pc, i, M, overall_ok >>

Next ==
    \/ SaveConfig
    \/ ProcessCapturedImage
    \/ LoadModelFromDb
    \/ LoadTestImage
    \/ RunInspectionStart
    \/ RunInspectionSlot
    \/ RunInspectionFinish

Spec == Init /\ [][Next]_vars

\* ------------------------------------------- find_image_transform alone
\* Any sequence of find_image_transform calls on any pair of images, with
\* the detector re-created in between.
CallFindImageTransform ==
    /\ pc = "idle"
    /\ \E img_ref \in {"A", "B", "D", NoneImg}, image \in {"A", "C", EmptyImg},
          o \in FitOracles \cup ManyMatchOracles :
         LET r == FindImageTransform(orb, ref_image_cache, img_ref, image, o)
         IN /\ ref_image_cache' = r.cache
            /\ obs' = [NoObs EXCEPT !.kind = "find_image_transform",
                          !.fit = FitObs("direct", orb, ref_image_cache,
                                         img_ref, image, o, r)]
    /\ UNCHANGED << camera_cache, camera_last_used, clock, editor, threads, orb, slots, img_reference, img_test, inspection_results,
                    inspection_status_var, pc, i, M, overall_ok >>

NextFit ==
    \/ CallFindImageTransform
    \/ SaveConfig

SpecFit == Init /\ [][NextFit]_vars

\* --------------------------------------------------------- check_slot alone
\* check_slot on every slot of the pool, every homography (or None) and
\* every outcome of the library calls: the arguments are drawn initially
\* and the call is made once.
InitSlot ==
    /\ orb = TRUE
    /\ ref_image_cache = InitialCache
    /\ slots = << >>
    /\ img_reference = NoneImg
    /\ img_test \in Images
    /\ inspection_results = << >>
    /\ inspection_status_var = "--"
    /\ pc = "idle"
    /\ i = 0
    /\ M = NoneM
    /\ overall_ok = TRUE
    /\ editor = EditorInit
    /\ threads = ThreadsInit
    /\ camera_cache = EmptyDict
    /\ camera_last_used = EmptyDict
    /\ clock = 0
    /\ \E slot \in SlotPool, m \in Homographies \cup {NoneM}, o \in SlotOracles :
         obs = [NoObs EXCEPT !.kind = "check_slot_args",
                             !.slot = [slot EXCEPT !.id = 1], !.m = m, !.o = o]

CallCheckSlot ==
    /\ obs.kind = "check_slot_args"
    /\ obs' = [obs EXCEPT !.kind = "check_slot",
                          !.ret = CheckSlot(obs.slot, obs.m, obs.o)]
    /\ UNCHANGED << camera_cache, camera_last_used, clock, editor, threads, orb, ref_image_cache, slots, img_reference, img_test,
                    inspection_results, inspection_status_var, pc, i, M, overall_ok >>

NextSlot ==
    \/ CallCheckSlot

SpecSlot == InitSlot /\ [][NextSlot]_vars

\* ------------------------------------------------ transform_rectangle alone
\* transform_rectangle on every rectangle of the pool and every homography
\* (or None): the arguments are drawn initially and the call is made once.
InitRect ==
    /\ orb = TRUE
    /\ ref_image_cache = InitialCache
    /\ slots = << >>
    /\ img_reference = NoneImg
    /\ img_test = NoneImg
    /\ inspection_results = << >>
    /\ inspection_status_var = "--"
    /\ pc = "idle"
    /\ i = 0
    /\ M = NoneM
    /\ overall_ok = TRUE
    /\ editor = EditorInit
    /\ threads = ThreadsInit
    /\ camera_cache = EmptyDict
    /\ camera_last_used = EmptyDict
    /\ clock = 0
    /\ \E rect \in RectPool, m \in RectHomographies, raises \in BOOLEAN :
         obs = [NoObs EXCEPT !.kind = "transform_rectangle_args",
                             !.slot = rect, !.m = m,
                             !.o = [BaseOracle EXCEPT !.raises = raises]]

CallTransformRectangle ==
    /\ obs.kind = "transform_rectangle_args"
    /\ obs' = [obs EXCEPT !.kind = "transform_rectangle",
                          !.ret = TransformRectangle(obs.slot, obs.m, obs.o.raises)]
    /\ UNCHANGED << camera_cache, camera_last_used, clock, editor, threads, orb, ref_image_cache, slots, img_reference,
                    img_test, inspection_results, inspection_status_var,
                    pc, i, M, overall_ok >>

NextRect ==
    \/ CallTransformRectangle

SpecRect == InitRect /\ [][NextRect]_vars

\* ------------------------------------------------- the model editor's slots
\* MontagemWindow: the slot list of the model being edited.  A slot is kept
\* as [id, x, y, w, h]; the other keys add_slot stores are constants.
NoSelection == -1

\* Rectangles on_canvas_release hands to add_slot, in image coordinates
\* (w and h come from a canvas drag of at least 10 pixels divided by the
\* scale factor, so they are never negative; x can be).
SlotXs == {-1, 0, ImgW - 2}
SlotYs == {0, ImgH - 3, ImgH - 2}
SlotWs == {0, 3}
SlotHs == {3}

SlotIds(slts) == { slts[k].id : k \in 1..Len(slts) }

\* A next id counted from the length of the list.
NextSlotId_Count(slts) == Len(slts) + 1

\* lines 4293-4297: slot_id = 1; while slot_id in existing_ids: slot_id += 1
NextSlotId(slts) ==
    CHOOSE n \in 1..(Len(slts) + 1) :
        /\ n \notin SlotIds(slts)
        /\ \A m \in 1..(n - 1) : m \in SlotIds(slts)

\* add_slot without the bounds test of line 4273.
AddSlotOutcome_NoBoundsTest(img_original, x, y, w, h) ==
    IF img_original = NoneImg THEN "no_image"
    ELSE IF PySliceLen(ImgH, y, y + h) * PySliceLen(ImgW, x, x + w) = 0
    THEN "roi_empty"
    ELSE "added"

\* The checks of add_slot (lines 4260-4282): which error box is shown, or
\* "added" when the slot is accepted.
AddSlotOutcome(img_original, x, y, w, h) ==
    IF img_original = NoneImg THEN "no_image"
    ELSE IF x < 0 \/ y < 0 \/ x + w > ImgW \/ y + h > ImgH
    THEN "out_of_bounds"
    ELSE IF PySliceLen(ImgH, y, y + h) * PySliceLen(ImgW, x, x + w) = 0
    THEN "roi_empty"
    ELSE "added"

\* MontagemWindow.add_slot
AddSlot ==
    /\ Len(editor.slots) < MaxEditorSlots
    /\ \E x \in SlotXs, y \in SlotYs, w \in SlotWs, h \in SlotHs :
         LET outcome == AddSlotOutcome(editor.img_original, x, y, w, h)
             slot_data == [id |-> NextSlotId(editor.slots),
                           x |-> x, y |-> y, w |-> w, h |-> h]
         IN /\ editor' = IF outcome = "added"
                         THEN [editor EXCEPT !.slots = Append(@, slot_data),
                                             !.model_modified = TRUE]
                         ELSE editor
            /\ obs' = [NoObs EXCEPT !.kind = "add_slot",
                                    !.slot = [x |-> x, y |-> y, w |-> w, h |-> h],
                                    !.ret = [path |-> outcome]]
    /\ UNCHANGED << camera_cache, camera_last_used, clock, orb, ref_image_cache, slots, img_reference, img_test,
                    inspection_results, inspection_status_var, pc, i, M,
                    overall_ok, threads >>

\* MontagemWindow.select_slot: an id that is not in the list is refused
SelectSlot ==
    /\ \E slot_id \in 1..MaxEditorSlots :
         editor' = IF slot_id \in SlotIds(editor.slots)
                   THEN [editor EXCEPT !.selected_slot_id = slot_id]
                   ELSE editor
    /\ obs' = [NoObs EXCEPT !.kind = "select_slot"]
    /\ UNCHANGED << camera_cache, camera_last_used, clock, orb, ref_image_cache, slots, img_reference, img_test,
                    inspection_results, inspection_status_var, pc, i, M,
                    overall_ok, threads >>

\* MontagemWindow.delete_selected_slot; confirmed is the answer to askyesno
DeleteSelectedSlot ==
    /\ \E confirmed \in BOOLEAN :
         editor' = IF editor.selected_slot_id = NoSelection \/ ~confirmed
                   THEN editor
                   ELSE [editor EXCEPT
                           !.slots = SelectSeq(@, LAMBDA sl :
                                         sl.id # editor.selected_slot_id),
                           !.selected_slot_id = NoSelection,
                           !.model_modified = TRUE]
    /\ obs' = [NoObs EXCEPT !.kind = "delete_selected_slot"]
    /\ UNCHANGED << camera_cache, camera_last_used, clock, orb, ref_image_cache, slots, img_reference, img_test,
                    inspection_results, inspection_status_var, pc, i, M,
                    overall_ok, threads >>

\* MontagemWindow.clear_slots
ClearSlots ==
    /\ \E confirmed \in BOOLEAN :
         editor' = IF editor.slots = << >> \/ ~confirmed
                   THEN editor
                   ELSE [editor EXCEPT !.slots = << >>,
                                       !.selected_slot_id = NoSelection,
                                       !.model_modified = TRUE]
    /\ obs' = [NoObs EXCEPT !.kind = "clear_slots"]
    /\ UNCHANGED << camera_cache, camera_last_used, clock, orb, ref_image_cache, slots, img_reference, img_test,
                    inspection_results, inspection_status_var, pc, i, M,
                    overall_ok, threads >>

\* MontagemWindow.load_image with a file chosen: clear_all, then
\* load_image_data, whose imread may give None
LoadImage ==
    /\ \E img \in {"A", NoneImg} :
         editor' = [editor EXCEPT !.img_original = img, !.slots = << >>,
                                  !.selected_slot_id = NoSelection]
    /\ obs' = [NoObs EXCEPT !.kind = "load_image"]
    /\ UNCHANGED << camera_cache, camera_last_used, clock, orb, ref_image_cache, slots, img_reference, img_test,
                    inspection_results, inspection_status_var, pc, i, M,
                    overall_ok, threads >>

\* MontagemWindow.create_new_model: clear_all, then mark_model_saved
CreateNewModel ==
    /\ editor' = EditorInit
    /\ obs' = [NoObs EXCEPT !.kind = "create_new_model"]
    /\ UNCHANGED << camera_cache, camera_last_used, clock, orb, ref_image_cache, slots, img_reference, img_test,
                    inspection_results, inspection_status_var, pc, i, M,
                    overall_ok, threads >>

\* The editor as MontagemWindow.__init__ leaves it.
InitEditor ==
    /\ orb = TRUE
    /\ ref_image_cache = InitialCache
    /\ slots = << >>
    /\ img_reference = NoneImg
    /\ img_test = NoneImg
    /\ inspection_results = << >>
    /\ inspection_status_var = "--"
    /\ pc = "idle"
    /\ i = 0
    /\ M = NoneM
    /\ overall_ok = TRUE
    /\ editor = EditorInit
    /\ threads = ThreadsInit
    /\ camera_cache = EmptyDict
    /\ camera_last_used = EmptyDict
    /\ clock = 0
    /\ obs = NoObs

NextEditor ==
    \/ AddSlot
    \/ SelectSlot
    \/ DeleteSelectedSlot
    \/ ClearSlots
    \/ LoadImage
    \/ CreateNewModel

SpecEditor == InitEditor /\ [][NextEditor]_vars

\* ------------------------------------- concurrent find_image_transform calls
\* Two threads call find_image_transform, each with the reference image of
\* its own model.  The function takes no lock, so a thread can be switched
\* out between any two statements of lines 442-456; each action below is one
\* of those statements (dict.update of line 451 is a single call).
\* The reference images thread t inspects against (the models loaded in its
\* window); the two threads have no reference in common.
ReferencesOf(t) == IF t = 1 THEN {"A", "C"} ELSE {"D"}

\* entry (lines 409-440): the call has reached the cache step
ThreadCall(t) ==
    /\ threads[t].pc = "idle"
    /\ \E img \in ReferencesOf(t) :
         threads' = [threads EXCEPT ![t] = [ThreadIdle EXCEPT !.pc = "check",
                                                             !.img_ref = img]]
    /\ obs' = NoObs
    /\ UNCHANGED << camera_cache, camera_last_used, clock, orb, ref_image_cache, slots, img_reference, img_test,
                    inspection_results, inspection_status_var, pc, i, M,
                    overall_ok, editor >>

\* the test of lines 443-445
ThreadCheck(t) ==
    /\ threads[t].pc = "check"
    /\ threads' = [threads EXCEPT ![t].pc =
                      IF CacheUsable(ref_image_cache, Fingerprint(threads[t].img_ref))
                      THEN "read_kp" ELSE "extract"]
    /\ obs' = NoObs
    /\ UNCHANGED << camera_cache, camera_last_used, clock, orb, ref_image_cache, slots, img_reference, img_test,
                    inspection_results, inspection_status_var, pc, i, M,
                    overall_ok, editor >>

\* line 447: kp_ref = _ref_image_cache['keypoints']
ThreadReadKp(t) ==
    /\ threads[t].pc = "read_kp"
    /\ threads' = [threads EXCEPT ![t].pc = "read_desc",
                                  ![t].kp_ref = ref_image_cache.keypoints]
    /\ obs' = NoObs
    /\ UNCHANGED << camera_cache, camera_last_used, clock, orb, ref_image_cache, slots, img_reference, img_test,
                    inspection_results, inspection_status_var, pc, i, M,
                    overall_ok, editor >>

\* line 448: desc_ref = _ref_image_cache['descriptors']
ThreadReadDesc(t) ==
    /\ threads[t].pc = "read_desc"
    /\ threads' = [threads EXCEPT ![t].pc = "match",
                                  ![t].desc_ref = ref_image_cache.descriptors]
    /\ obs' = NoObs
    /\ UNCHANGED << camera_cache, camera_last_used, clock, orb, ref_image_cache, slots, img_reference, img_test,
                    inspection_results, inspection_status_var, pc, i, M,
                    overall_ok, editor >>

\* line 450: kp_ref, desc_ref = orb.detectAndCompute(gray_ref, None)
ThreadExtract(t) ==
    /\ threads[t].pc = "extract"
    /\ threads' = [threads EXCEPT
                      ![t].pc = "update",
                      ![t].kp_ref = DetectAndCompute(threads[t].img_ref).keypoints,
                      ![t].desc_ref = DetectAndCompute(threads[t].img_ref).descriptors]
    /\ obs' = NoObs
    /\ UNCHANGED << camera_cache, camera_last_used, clock, orb, ref_image_cache, slots, img_reference, img_test,
                    inspection_results, inspection_status_var, pc, i, M,
                    overall_ok, editor >>

\* lines 451-456: _ref_image_cache.update({...})
ThreadUpdate(t) ==
    /\ threads[t].pc = "update"
    /\ ref_image_cache' = [image_hash  |-> Fingerprint(threads[t].img_ref),
                           keypoints   |-> threads[t].kp_ref,
                           descriptors |-> threads[t].desc_ref]
    /\ threads' = [threads EXCEPT ![t].pc = "match"]
    /\ obs' = NoObs
    /\ UNCHANGED << camera_cache, camera_last_used, clock, orb, slots, img_reference, img_test,
                    inspection_results, inspection_status_var, pc, i, M,
                    overall_ok, editor >>

\* lines 459-516: the matching uses kp_ref and desc_ref, and the call returns
ThreadReturn(t) ==
    /\ threads[t].pc = "match"
    /\ threads' = [threads EXCEPT ![t] = ThreadIdle]
    /\ obs' = [NoObs EXCEPT !.kind = "thread_return",
                            !.fit = [caller |-> t, img_ref |-> threads[t].img_ref,
                                     kp_ref |-> threads[t].kp_ref,
                                     desc_ref |-> threads[t].desc_ref]]
    /\ UNCHANGED << camera_cache, camera_last_used, clock, orb, ref_image_cache, slots, img_reference, img_test,
                    inspection_results, inspection_status_var, pc, i, M,
                    overall_ok, editor >>

InitThreads ==
    /\ orb = TRUE
    /\ ref_image_cache = InitialCache
    /\ slots = << >>
    /\ img_reference = NoneImg
    /\ img_test = NoneImg
    /\ inspection_results = << >>
    /\ inspection_status_var = "--"
    /\ pc = "idle"
    /\ i = 0
    /\ M = NoneM
    /\ overall_ok = TRUE
    /\ editor = EditorInit
    /\ threads = ThreadsInit
    /\ camera_cache = EmptyDict
    /\ camera_last_used = EmptyDict
    /\ clock = 0
    /\ obs = NoObs

NextThreads ==
    \/ \E t \in Threads : ThreadCall(t)
    \/ \E t \in Threads : ThreadCheck(t)
    \/ \E t \in Threads : ThreadReadKp(t)
    \/ \E t \in Threads : ThreadReadDesc(t)
    \/ \E t \in Threads : ThreadExtract(t)
    \/ \E t \in Threads : ThreadUpdate(t)
    \/ \E t \in Threads : ThreadReturn(t)

SpecThreads == InitThreads /\ [][NextThreads]_vars

\* ------------------------------------------------ selection of the matches
\* Lines 477-495 on the list the cross-check matcher returns: a match is
\* [id, distance], id being its position in the matcher's output.
MaxMatches == 5
Distances == {1, 2, 3}

\* Line 487: sorted(matches, key=lambda x: x.distance). Python's sort is
\* stable: a match comes after the matches that are nearer and after those,
\* equally near, that the matcher listed before it.
SortedByDistance(matches) ==
    LET n == Len(matches)
        Rank(k) == Cardinality({ j \in 1..n :
                       \/ matches[j].distance < matches[k].distance
                       \/ matches[j].distance = matches[k].distance /\ j <= k })
    IN [p \in 1..n |-> matches[CHOOSE k \in 1..n : Rank(k) = p]]

\* GoodMatches without the sort of line 487.
GoodMatches_Unsorted(matches) ==
    SubSeq(matches, 1, Min(Len(matches), MaxGoodMatches))

\* Lines 487-491: the matches whose points go to findHomography.
GoodMatches(matches) ==
    LET sorted      == SortedByDistance(matches)
        max_matches == Min(Len(sorted), MaxGoodMatches)
    IN SubSeq(sorted, 1, max_matches)

\* Lines 481-495: what the solver is given; nothing when the matches are
\* fewer than four.
SolverInput(matches) ==
    IF Len(matches) < MinDescriptors
    THEN [path |-> "few_matches", good |-> << >>]
    ELSE [path |-> "solver", good |-> GoodMatches(matches)]

\* Outputs of bf.match: every short list of distances, and two lists longer
\* than 100, one with all distances different and one with many ties.
MatchLists ==
    { [k \in 1..Len(d) |-> [id |-> k, distance |-> d[k]]] :
        d \in UNION { [1..n -> Distances] : n \in 0..MaxMatches } }
    \cup { [k \in 1..103 |-> [id |-> k, distance |-> (k * 37) % 103]],
           [k \in 1..120 |-> [id |-> k, distance |-> (k * 7) % 5]] }

InitMatch ==
    /\ orb = TRUE
    /\ ref_image_cache = InitialCache
    /\ slots = << >>
    /\ img_reference = NoneImg
    /\ img_test = NoneImg
    /\ inspection_results = << >>
    /\ inspection_status_var = "--"
    /\ pc = "idle"
    /\ i = 0
    /\ M = NoneM
    /\ overall_ok = TRUE
    /\ editor = EditorInit
    /\ threads = ThreadsInit
    /\ camera_cache = EmptyDict
    /\ camera_last_used = EmptyDict
    /\ clock = 0
    /\ \E matches \in MatchLists :
         obs = [NoObs EXCEPT !.kind = "matches", !.matches = matches]

SelectMatches ==
    /\ obs.kind = "matches"
    /\ obs' = [obs EXCEPT !.kind = "good_matches",
                          !.ret = SolverInput(obs.matches)]
    /\ UNCHANGED << camera_cache, camera_last_used, clock, editor, threads, orb, ref_image_cache, slots, img_reference,
                    img_test, inspection_results, inspection_status_var,
                    pc, i, M, overall_ok >>

NextMatch ==
    \/ SelectMatches

SpecMatch == InitMatch /\ [][NextMatch]_vars

\* ------------------------------------------------------------ camera cache
\* Camera indices are 0..MaxCameraIndex and time.time() runs from 0 to
\* MaxTime.
MaxCameraIndex == 1
MaxTime == 3
CameraIndices == 0..MaxCameraIndex

\* max_idle_time values cleanup_unused_cameras is called with
IdleTimes == {0, 2}

\* del d[key] and d[key] = value on a dict
DictWithout(d, key) == [k \in DOMAIN d \ {key} |-> d[k]]
DictWith(d, key, value) ==
    [k \in DOMAIN d \cup {key} |-> IF k = key THEN value ELSE d[k]]

\* get_cached_camera(camera_index, force_new), lines 142-195, on the pair
\* of dicts c = [cache, last_used]; opens is FALSE when cap.isOpened() is
\* false or cv2.VideoCapture raises. ret is "None" or the cached capture.
GetCachedCamera(c, camera_index, force_new, opens, now) ==
    IF force_new \/ camera_index \notin DOMAIN c.cache
    THEN LET dropped == IF camera_index \in DOMAIN c.cache
                        THEN DictWithout(c.cache, camera_index) ELSE c.cache
         IN IF ~opens
            THEN [cache |-> dropped, last_used |-> c.last_used, ret |-> "None"]
            ELSE [cache |-> DictWith(dropped, camera_index, "VideoCapture"),
                  last_used |-> DictWith(c.last_used, camera_index, now),
                  ret |-> "VideoCapture"]
    ELSE [cache |-> c.cache,
          last_used |-> DictWith(c.last_used, camera_index, now),
          ret |-> c.cache[camera_index]]

\* release_cached_camera(camera_index), lines 197-210
ReleaseCachedCamera(c, camera_index) ==
    IF camera_index \in DOMAIN c.cache
    THEN [cache |-> DictWithout(c.cache, camera_index),
          last_used |-> IF camera_index \in DOMAIN c.last_used
                        THEN DictWithout(c.last_used, camera_index)
                        ELSE c.last_used]
    ELSE [cache |-> c.cache, last_used |-> c.last_used]

\* for camera_index in cameras_to_remove: release_cached_camera(camera_index)
RECURSIVE ReleaseEach(_, _)
ReleaseEach(c, cameras_to_remove) ==
    IF cameras_to_remove = {} THEN c
    ELSE LET camera_index == CHOOSE k \in cameras_to_remove : TRUE
         IN ReleaseEach(ReleaseCachedCamera(c, camera_index),
                        cameras_to_remove \ {camera_index})

\* cleanup_unused_cameras(max_idle_time), lines 212-226
CleanupUnusedCameras(c, max_idle_time, current_time) ==
    ReleaseEach(c, { k \in DOMAIN c.last_used :
                       current_time - c.last_used[k] > max_idle_time })

\* release_all_cached_cameras(), lines 245-252
ReleaseAllCachedCameras(c) == ReleaseEach(c, DOMAIN c.cache)

CameraDicts == [cache |-> camera_cache, last_used |-> camera_last_used]

CameraFrame ==
    UNCHANGED << orb, ref_image_cache, slots, img_reference, img_test,
                 inspection_results, inspection_status_var, pc, i, M,
                 overall_ok, editor, threads >>

\* Lines 139-140: both dicts start empty.
InitCamera ==
    /\ orb = TRUE
    /\ ref_image_cache = InitialCache
    /\ slots = << >>
    /\ img_reference = NoneImg
    /\ img_test = NoneImg
    /\ inspection_results = << >>
    /\ inspection_status_var = "--"
    /\ pc = "idle"
    /\ i = 0
    /\ M = NoneM
    /\ overall_ok = TRUE
    /\ editor = EditorInit
    /\ threads = ThreadsInit
    /\ camera_cache = EmptyDict
    /\ camera_last_used = EmptyDict
    /\ clock = 0
    /\ obs = NoObs

\* time passes between two calls
Tick ==
    /\ clock < MaxTime
    /\ clock' = clock + 1
    /\ obs' = [NoObs EXCEPT !.kind = "tick"]
    /\ UNCHANGED << camera_cache, camera_last_used >>
    /\ CameraFrame

CallGetCachedCamera ==
    /\ \E camera_index \in CameraIndices, force_new \in BOOLEAN, opens \in BOOLEAN :
         LET r == GetCachedCamera(CameraDicts, camera_index, force_new, opens, clock)
         IN /\ camera_cache' = r.cache
            /\ camera_last_used' = r.last_used
            /\ obs' = [NoObs EXCEPT !.kind = "get_cached_camera",
                                    !.ret = [path |-> r.ret, index |-> camera_index,
                                             force_new |-> force_new]]
    /\ UNCHANGED clock
    /\ CameraFrame

CallReleaseCachedCamera ==
    /\ \E camera_index \in CameraIndices :
         LET r == ReleaseCachedCamera(CameraDicts, camera_index)
         IN /\ camera_cache' = r.cache
            /\ camera_last_used' = r.last_used
    /\ obs' = [NoObs EXCEPT !.kind = "release_cached_camera"]
    /\ UNCHANGED clock
    /\ CameraFrame

CallCleanupUnusedCameras ==
    /\ \E max_idle_time \in IdleTimes :
         LET r == CleanupUnusedCameras(CameraDicts, max_idle_time, clock)
         IN /\ camera_cache' = r.cache
            /\ camera_last_used' = r.last_used
    /\ obs' = [NoObs EXCEPT !.kind = "cleanup_unused_cameras"]
    /\ UNCHANGED clock
    /\ CameraFrame

CallReleaseAllCachedCameras ==
    /\ LET r == ReleaseAllCachedCameras(CameraDicts)
       IN /\ camera_cache' = r.cache
          /\ camera_last_used' = r.last_used
    /\ obs' = [NoObs EXCEPT !.kind = "release_all_cached_cameras"]
    /\ UNCHANGED clock
    /\ CameraFrame

NextCamera ==
    \/ Tick
    \/ CallGetCachedCamera
    \/ CallReleaseCachedCamera
    \/ CallCleanupUnusedCameras
    \/ CallReleaseAllCachedCameras

SpecCamera == InitCamera /\ [][NextCamera]_vars

\* ================================================================ properties
CheckReturned == obs.kind = "check_slot"
FitReturned == obs.kind = "find_image_transform"
InspectionDone == obs.kind = "inspection_done"

ScoringPaths == {"template", "histogram", "contour", "comparison"}

\* C1 as stated: on every return of check_slot, whatever the method and
\* including the failure returns, passed = (score >= ok_threshold / 100).
C1_EveryReturnFollowsThreshold ==
    CheckReturned =>
        obs.ret.passou = (obs.ret.score >= 10 * OkThresholdOf(obs.slot))

\* C1 amended: when template matching, histogram, contour or image
\* comparison produced the score, passed = (score >= ok_threshold / 100);
\* every failure return is passed = false with score 0.0 whatever the
\* threshold (the classifier return takes passed from the predicted label).
C1_ScoredReturnFollowsThreshold ==
    CheckReturned =>
        /\ obs.ret.path \in ScoringPaths =>
             obs.ret.passou = (obs.ret.score >= 10 * OkThresholdOf(obs.slot))
        /\ obs.ret.path \notin ScoringPaths \cup {"ml"} =>
             ~obs.ret.passou /\ obs.ret.score = 0

\* a template-matching return whose score is exactly the threshold
C1_Witness ==
    /\ CheckReturned
    /\ obs.ret.path = "template"
    /\ obs.ret.score = 10 * OkThresholdOf(obs.slot)
    /\ obs.ret.passou

\* C2: the score check_slot returns is always in [0, 1].
C2_ScoreInUnitInterval ==
    CheckReturned => obs.ret.score >= 0 /\ obs.ret.score <= 1000

\* The bounding box of the projected slot rectangle has no pixel in common
\* with the image.
FullyOutside(slot, m) ==
    LET xs == << m.a * slot.x + m.tx, m.a * (slot.x + slot.w) + m.tx >>
        ys == << m.a * slot.y + m.ty, m.a * (slot.y + slot.h) + m.ty >>
    IN \/ SeqMax(xs) <= 0 \/ SeqMin(xs) >= ImgW
       \/ SeqMax(ys) <= 0 \/ SeqMin(ys) >= ImgH

\* C3: a slot projected fully outside the image by a homography gives
\* passed = false, score 0.0, the out-of-bounds diagnostic, and no region
\* of the image is scored.
C3_OutsideRoiRejected ==
    (CheckReturned /\ obs.m # NoneM /\ FullyOutside(obs.slot, obs.m)) =>
        /\ ~obs.ret.passou
        /\ obs.ret.score = 0
        /\ obs.ret.log[Len(obs.ret.log)] = "roi_out_of_bounds"
        /\ ~obs.ret.scored

\* C4: after an inspection with a successful alignment the verdict is pass
\* exactly when check_slot returned passed = true for every slot.
C4_VerdictIffAllChecksPassed ==
    InspectionDone =>
        /\ (obs.summary.final_status = "APROVADO")
             <=> (\A k \in 1..Len(obs.calls) : obs.calls[k].ret.passou)
        /\ (inspection_status_var = "OK")
             <=> (\A k \in 1..Len(obs.calls) : obs.calls[k].ret.passou)

\* C5: an inspection whose alignment succeeded records exactly one result
\* per slot, in slot order; a slot whose processing raised is recorded with
\* passed = false.
C5_OneResultPerSlot ==
    InspectionDone =>
        /\ Len(inspection_results) = Len(slots)
        /\ \A k \in 1..Len(inspection_results) :
             /\ inspection_results[k].slot_id = slots[k].id
             /\ obs.calls[k].error => ~inspection_results[k].passou

\* The results the loop should hold after the given check_slot calls:
\* those of the calls whose processing did not raise, in order.
RECURSIVE RecordedOf(_, _)
RecordedOf(calls, slts) ==
    IF calls = << >> THEN << >>
    ELSE LET c    == calls[Len(calls)]
             rest == RecordedOf(SubSeq(calls, 1, Len(calls) - 1), slts)
         IN IF c.error THEN rest
            ELSE Append(rest, [slot_id |-> slts[c.index].id,
                               passou |-> c.ret.passou, score |-> c.ret.score,
                               bbox |-> c.ret.bbox])

\* C6: in the slot loop a failure or exception at slot i neither stops the
\* evaluation of the later slots (check_slot has been called once for each
\* slot reached so far, and for all of them at the end) nor changes what is
\* recorded for another slot (the results are exactly what check_slot
\* returned for the slots whose processing did not raise).
C6_FailureIsLocalToItsSlot ==
    obs.kind \in {"inspection_running", "inspection_done"} =>
        /\ Len(obs.calls) = (IF pc = "loop" THEN i - 1 ELSE Len(slots))
        /\ \A k \in 1..Len(obs.calls) : obs.calls[k].index = k
        /\ inspection_results = RecordedOf(obs.calls, slots)

\* a finished inspection in which a slot raised, an earlier slot failed
\* without raising, and a later slot passed and is recorded
C6_Witness ==
    /\ InspectionDone
    /\ \E k \in 1..Len(obs.calls) : \E j \in 1..Len(obs.calls) :
         /\ k < j
         /\ (obs.calls[k].error \/ ~obs.calls[k].ret.passou)
         /\ obs.calls[j].ret.passou
         /\ inspection_results[Len(inspection_results)].slot_id = slots[j].id
         /\ inspection_results[Len(inspection_results)].passou

\* C7 as stated: the reference is extracted again exactly when its
\* fingerprint differs from the cached one.
C7_ExtractIffFingerprintDiffers ==
    (FitReturned /\ obs.fit.r.reached) =>
        (obs.fit.r.extracted
           <=> Fingerprint(obs.fit.img_ref) # obs.fit.before.image_hash)

\* C7 amended: in a call that reaches the cache step the reference is
\* extracted again exactly when its fingerprint differs from the cached one
\* or the cached descriptors are None; a call that returns before the cache
\* step extracts nothing.
C7_ExtractIffDiffersOrNoDescriptors ==
    FitReturned =>
        (obs.fit.r.extracted
           <=> /\ obs.fit.r.reached
               /\ \/ Fingerprint(obs.fit.img_ref) # obs.fit.before.image_hash
                  \/ obs.fit.before.descriptors = NoneDesc)

\* a call on the reference whose fingerprint is cached without descriptors
C7_Witness ==
    /\ FitReturned
    /\ obs.fit.r.reached
    /\ Fingerprint(obs.fit.img_ref) = obs.fit.before.image_hash
    /\ obs.fit.before.descriptors = NoneDesc
    /\ obs.fit.r.extracted

\* C8: find_image_transform never raises; with a descriptor set missing or
\* shorter than 4 it returns (None, 0, diagnostic), with fewer than 4
\* matches (None, number of matches, diagnostic).
C8_TooFewFeaturesReturnsDiagnostic ==
    FitReturned =>
        LET f     == obs.fit
            nref  == DescCount(f.img_ref)
            ntest == DescCount(f.img_test)
            nm    == Min(f.o.nmatches, Min(nref, ntest))
        IN /\ ~f.r.raised
           /\ (f.r.reached /\ (nref < 4 \/ ntest < 4)) =>
                f.r.M = NoneM /\ f.r.count = 0 /\ f.r.err # "None"
           /\ (f.r.reached /\ nref >= 4 /\ ntest >= 4 /\ f.o.raise = "no" /\ nm < 4) =>
                f.r.M = NoneM /\ f.r.count = nm /\ f.r.err # "None"

\* a call that found 3 matches between two images rich in descriptors
C8_Witness ==
    /\ FitReturned
    /\ obs.fit.r.err = "few_matches"
    /\ obs.fit.r.count = 3
    /\ obs.fit.r.M = NoneM

\* C9: without a detector find_image_transform returns no homography and
\* a diagnostic and leaves the cache alone, and run_inspection stops there:
\* alignment-failure status, no slot evaluated.
C9_NoDetectorIsFatal ==
    (obs.fit.caller = "run_inspection" /\ ~obs.fit.orb) =>
        /\ obs.fit.r.M = NoneM
        /\ obs.fit.r.err = "orb_unavailable"
        /\ obs.fit.r.cache = obs.fit.before
        /\ ref_image_cache = obs.fit.before
        /\ obs.kind = "inspection_align_fail"
        /\ inspection_status_var = "FALHA DE ALINHAMENTO"
        /\ obs.calls = << >>
        /\ pc = "idle"

\* an inspection of a loaded model that ended for lack of a detector
C9_Witness ==
    /\ obs.kind = "inspection_align_fail"
    /\ ~obs.fit.orb
    /\ slots # << >>

C11_RectangleInsideImageOrNone ==
    obs.kind = "transform_rectangle" =>
      LET r  == obs.ret
          xs == RectCoords(obs.slot, obs.m, 1)
          ys == RectCoords(obs.slot, obs.m, 2)
          clipped_w == Min(ImgW, PyInt(SeqMax(xs), obs.m.den))
                       - Max(0, PyInt(SeqMin(xs), obs.m.den))
          clipped_h == Min(ImgH, PyInt(SeqMax(ys), obs.m.den))
                       - Max(0, PyInt(SeqMin(ys), obs.m.den))
      IN /\ r = NoneRect
            \/ /\ r[1] >= 0 /\ r[2] >= 0 /\ r[3] > 0 /\ r[4] > 0
               /\ r[1] + r[3] <= ImgW /\ r[2] + r[4] <= ImgH
         /\ obs.m.a = 0 => r = NoneRect
         /\ (obs.m.a # 0 /\ (clipped_w <= 0 \/ clipped_h <= 0)) => r = NoneRect

\* A rectangle pushed off the image by a homography that is not None, with
\* no exception: the clipped box is empty and None comes back.
C11_Witness ==
    /\ obs.kind = "transform_rectangle"
    /\ obs.m.a # 0
    /\ ~obs.o.raises
    /\ obs.ret = NoneRect

\* C12: template matching evaluates exactly one candidate scale, 1.0, when
\* scale_tolerance is 0, and exactly the three candidate scales 1 - tol, 1
\* and 1 + tol when it is greater than 0; no other number of candidates is
\* used, and no scale is evaluated on a return that is not the template
\* matching result.
C12_OneOrThreeCandidateScales ==
    CheckReturned =>
      LET tol    == obs.slot.scale_tolerance
          scales == obs.ret.scales
      IN IF obs.ret.path = "template"
         THEN /\ Len(scales) \in {1, 3}
              /\ tol = 0 => scales = << 100 >>
              /\ tol > 0 => scales = << 100 - tol, 100, 100 + tol >>
         ELSE scales = << >>

\* A template match with scale_tolerance 0: the only candidate is 1.0.
C12_Witness ==
    /\ CheckReturned
    /\ obs.ret.path = "template"
    /\ obs.slot.scale_tolerance = 0
    /\ obs.ret.scales = << 100 >>
    /\ obs.ret.best_scale = 100

\* The return statements of check_slot that report a failure, and the
\* diagnostics they append.
FailurePaths ==
    {"out_of_bounds", "roi_empty", "unsupported", "no_contour", "no_template",
     "method_error", "error"}

FailureMessages ==
    {"roi_out_of_bounds", "roi_empty", "fita_unsupported", "histogram_error",
     "contour_error", "no_contour", "comparison_template_not_found",
     "comparison_template_load_error", "comparison_error",
     "template_not_found", "template_load_error", "error"}

\* C13: check_slot never lets an exception escape; on every failure
\* (template missing or unreadable, ROI outside the image, empty ROI,
\* unsupported slot type, no contour found, an error inside a method) it
\* returns passed = false and score 0.0 with a diagnostic appended, and for
\* a missing template the diagnostic names the missing template.
C13_FailureGivesFalseZeroDiagnostic ==
    CheckReturned =>
      LET r    == obs.ret
          last == r.log[Len(r.log)]
      IN /\ ~r.raised
         /\ (\/ r.path \in FailurePaths
             \/ obs.m # NoneM /\ FullyOutside(obs.slot, obs.m))
            => (~r.passou /\ r.score = 0 /\ Len(r.log) >= 2
                /\ last \in FailureMessages)
         /\ (r.path = "no_template" /\ obs.slot.template = "missing")
            => last \in {"template_not_found", "comparison_template_not_found"}

\* C13 restricted to the failure returns the code has: what remains true.
C13_FailureReturnsOnly ==
    CheckReturned =>
      LET r    == obs.ret
          last == r.log[Len(r.log)]
      IN /\ ~r.raised
         /\ r.path \in FailurePaths
            => (~r.passou /\ r.score = 0 /\ Len(r.log) >= 2
                /\ last \in FailureMessages)
         /\ (r.path = "no_template" /\ obs.slot.template = "missing")
            => last \in {"template_not_found", "comparison_template_not_found"}

\* The classifier was tried and failed: its error is in the log.
MlErrorRecorded ==
    /\ CheckReturned
    /\ Len(obs.ret.log) >= 2
    /\ obs.ret.log[2] = "ml_error"

\* The diagnostics each detection method ends a call with.
MessagesOfMethod(method) ==
    CASE method = "histogram_analysis" -> {"histogram", "histogram_error"}
      [] method = "contour_analysis"   -> {"contour", "contour_error", "no_contour"}
      [] method = "image_comparison"   ->
           {"comparison", "comparison_error", "comparison_template_not_found",
            "comparison_template_load_error"}
      [] OTHER -> {"correlation", "template_not_found", "template_load_error", "error"}

\* C14: when the slot uses the classifier and loading or predicting fails,
\* check_slot records the classifier error and then scores the slot with
\* template matching, whatever detection_method the slot names.
C14_FallbackIsTemplateMatching ==
    /\ (CheckReturned /\ obs.slot.use_ml /\ obs.o.ml = "error"
         /\ obs.ret.path \notin {"out_of_bounds", "roi_empty", "unsupported"})
        => MlErrorRecorded
    /\ MlErrorRecorded =>
         obs.ret.log[Len(obs.ret.log)] \in MessagesOfMethod("template_matching")

\* C14 as the code has it: after a classifier failure the error is recorded
\* and the slot is scored by the method its detection_method names, which is
\* template matching only when the slot names it, names no method or names
\* an unknown one.
C14_FallbackIsConfiguredMethod ==
    /\ (CheckReturned /\ obs.slot.use_ml /\ obs.o.ml = "error"
         /\ obs.ret.path \notin {"out_of_bounds", "roi_empty", "unsupported"})
        => MlErrorRecorded
    /\ MlErrorRecorded =>
         /\ obs.slot.use_ml /\ obs.o.ml = "error"
         /\ obs.ret.path # "ml"
         /\ obs.ret.log[Len(obs.ret.log)]
              \in MessagesOfMethod(obs.slot.detection_method)
         /\ (obs.ret.scales # << >>) =>
              obs.slot.detection_method
                \notin {"histogram_analysis", "contour_analysis", "image_comparison"}

\* The classifier fails for a slot that names histogram_analysis, and the
\* slot is scored by the histogram method.
C14_Witness ==
    /\ MlErrorRecorded
    /\ obs.slot.detection_method = "histogram_analysis"
    /\ obs.ret.path = "histogram"
    /\ obs.ret.score > 0

\* Values of correlation_threshold (thousandths; -1 absent) and of
\* detection_threshold (thousandths of the stored number; -1 absent) a slot
\* can carry: add_slot stores 0.8, the slot editor a percentage.
CorrelationThresholds == {-1, 100, 950}
DetectionThresholds == {-1, 800, 50000, 99000}

\* The slot with other thresholds, everything else the same.
WithThresholds(slot, ct, dt) ==
    [slot EXCEPT !.correlation_threshold = ct, !.detection_threshold = dt]

\* C15: the pass decision does not depend on detection_threshold or
\* correlation_threshold: a slot that differs from the evaluated one only in
\* those two fields gets the same passed and score for the same image,
\* homography and library results.
C15_DecisionIgnoresThresholds ==
    CheckReturned =>
      \A ct \in CorrelationThresholds, dt \in DetectionThresholds :
        LET other == CheckSlot(WithThresholds(obs.slot, ct, dt), obs.m, obs.o)
        IN /\ other.passou = obs.ret.passou
           /\ other.score = obs.ret.score

\* A template match that passes with a score below the correlation_threshold
\* of the other slot: the diagnostic text changes, the decision does not.
C15_Witness ==
    /\ CheckReturned
    /\ obs.ret.path = "template"
    /\ obs.ret.passou
    /\ obs.ret.score < 950
    /\ LET other == CheckSlot(WithThresholds(obs.slot, 950, 800), obs.m, obs.o)
       IN /\ other.threshold = 950
          /\ other.threshold # obs.ret.threshold
          /\ other.passou

C17_OwnReferenceFeatures ==
    \A t \in Threads :
      threads[t].pc = "match" =>
        /\ threads[t].kp_ref.of = threads[t].img_ref
        /\ threads[t].desc_ref.of = threads[t].img_ref

\* C18: after any sequence of add_slot, delete_selected_slot and
\* clear_slots all slots of the list have pairwise distinct ids, and the id
\* add_slot assigns is the smallest positive integer no other slot uses.
C18_SlotIdsDistinct ==
    LET slts == editor.slots
        n    == Len(slts)
    IN /\ \A j, k \in 1..n : j # k => slts[j].id # slts[k].id
       /\ \A k \in 1..n : slts[k].id >= 1
       /\ (obs.kind = "add_slot" /\ obs.ret.path = "added") =>
            \A m \in 1..(slts[n].id - 1) : m \in { slts[k].id : k \in 1..(n - 1) }

\* A slot added after the slot with id 1 was deleted from a longer list:
\* the new slot, last in the list, takes the freed id 1.
C18_Witness ==
    /\ obs.kind = "add_slot"
    /\ obs.ret.path = "added"
    /\ Len(editor.slots) >= 2
    /\ editor.slots[Len(editor.slots)].id = 1

\* The rectangle lies within the reference image.
InsideImage(r) ==
    r.x >= 0 /\ r.y >= 0 /\ r.x + r.w <= ImgW /\ r.y + r.h <= ImgH

\* C19: add_slot appends a slot only when an image is loaded, the rectangle
\* lies within it and the region is non-empty; when no image is loaded or
\* the rectangle is out of bounds it reports an error and leaves the slot
\* list and the modified flag unchanged.
C19_AddSlotOnlyInsideImage ==
    [][ obs'.kind = "add_slot" =>
          LET r == obs'.slot
          IN /\ editor'.slots # editor.slots =>
                  /\ editor.img_original # NoneImg
                  /\ InsideImage(r) /\ r.w > 0 /\ r.h > 0
                  /\ Len(editor'.slots) = Len(editor.slots) + 1
                  /\ SubSeq(editor'.slots, 1, Len(editor.slots)) = editor.slots
                  /\ LET new == editor'.slots[Len(editor'.slots)]
                     IN [x |-> new.x, y |-> new.y, w |-> new.w, h |-> new.h] = r
             /\ (editor.img_original = NoneImg \/ ~InsideImage(r)) =>
                  /\ obs'.ret.path \in {"no_image", "out_of_bounds"}
                  /\ editor'.slots = editor.slots
                  /\ editor'.model_modified = editor.model_modified ]_vars

\* add_slot has refused a rectangle that reaches beyond the right edge of a
\* loaded image, on a model that was not modified before.
C19_Witness ==
    /\ obs.kind = "add_slot"
    /\ obs.ret.path = "out_of_bounds"
    /\ obs.slot.x + obs.slot.w > ImgW
    /\ editor.img_original # NoneImg
    /\ ~editor.model_modified

OtherMethods == {"histogram_analysis", "contour_analysis", "image_comparison"}

\* C20: for histogram_analysis, contour_analysis and image_comparison
\* check_slot returns from inside the method's branch on every path: the
\* result is the method's own score or its own failure, the template scale
\* loop and the template decision never run for it, and they run only for
\* the template-matching branch.
C20_OtherMethodsReturnInBranch ==
    CheckReturned =>
      LET r      == obs.ret
          method == obs.slot.detection_method
          last   == r.log[Len(r.log)]
      IN /\ (method \in OtherMethods
             /\ r.path \notin {"out_of_bounds", "roi_empty", "unsupported", "ml"})
            => /\ r.scales = << >>
               /\ r.best_scale = 0
               /\ last \in MessagesOfMethod(method)
               /\ r.path \in {"histogram", "contour", "comparison", "no_contour",
                               "no_template", "method_error"}
               /\ r.path = "histogram"  => r.score = HistogramScore(obs.o)
               /\ r.path = "contour"    => r.score = ContourScore(obs.o)
               /\ r.path = "comparison" => r.score = ComparisonScore(obs.o)
               /\ r.path \in {"no_contour", "no_template", "method_error"}
                    => (r.score = 0 /\ ~r.passou)
         /\ (r.scales # << >> \/ last = "correlation")
            => (r.path = "template" /\ method \notin OtherMethods)

\* The contour method found no contour: the call ends there, with the
\* method's own failure.
C20_Witness ==
    /\ CheckReturned
    /\ obs.slot.detection_method = "contour_analysis"
    /\ obs.ret.path = "no_contour"
    /\ obs.ret.scales = << >>

\* The diagnostics find_image_transform returns; "None" is no diagnostic.
FitDiagnostics ==
    {"orb_unavailable", "invalid_images", "no_descriptors", "few_descriptors",
     "few_matches", "no_homography", "exception"}

\* C21: on every return of find_image_transform the homography is None
\* exactly when the diagnostic is not None: success returns the solver's
\* matrix, the inlier count and no diagnostic; every failure returns None, a
\* count and a diagnostic, the count being the number of matches kept (at
\* most 100) when the solver gives no matrix.
C21_HomographyXorDiagnostic ==
    FitReturned =>
      LET f     == obs.fit
          r     == f.r
          nm    == Min(f.o.nmatches, Min(DescCount(f.img_ref), DescCount(f.img_test)))
          solved == /\ f.orb /\ r.reached /\ f.o.raise = "no"
                    /\ DescCount(f.img_ref) >= 4 /\ DescCount(f.img_test) >= 4
                    /\ nm >= 4
      IN /\ (r.M = NoneM) <=> (r.err # "None")
         /\ r.err \in FitDiagnostics \cup {"None"}
         /\ r.err = "None" => (solved /\ r.M = f.o.solverM /\ r.count = Min(f.o.inliers, Min(nm, 100)))
         /\ (solved /\ f.o.solverM = NoneM) =>
              (r.err = "no_homography" /\ r.count = Min(nm, 100))
         /\ (solved /\ f.o.solverM # NoneM) => r.err = "None"
         /\ ~f.orb => r.err = "orb_unavailable"
         /\ (f.orb /\ (f.img_ref \in {NoneImg, EmptyImg}
                        \/ f.img_test \in {NoneImg, EmptyImg}))
              => r.err = "invalid_images"
         /\ (r.reached /\ f.o.raise = "match"
             /\ DescCount(f.img_ref) >= 4 /\ DescCount(f.img_test) >= 4)
              => r.err = "exception"

\* The solver gives no matrix for 150 matches: 100 were kept and 100 is the
\* count returned.
C21_Witness ==
    /\ FitReturned
    /\ obs.fit.r.err = "no_homography"
    /\ obs.fit.o.nmatches = 150
    /\ obs.fit.r.count = 100
    /\ obs.fit.r.M = NoneM

MatchesSelected == obs.kind = "good_matches" /\ obs.ret.path = "solver"

\* C22: the correspondences handed to the solver are the min(n, 100) matches
\* of smallest distance among the n cross-checked matches, in ascending order
\* of distance; no match outside that set is used.
C22_SolverGetsNearestMatchesAscending ==
    MatchesSelected =>
      LET all  == obs.matches
          good == obs.ret.good
          kept == { good[k].id : k \in 1..Len(good) }
      IN /\ Len(good) = Min(Len(all), 100)
         /\ \A k \in 1..Len(good) :
              good[k].id \in 1..Len(all) /\ good[k] = all[good[k].id]
         /\ Cardinality(kept) = Len(good)
         /\ \A j, k \in 1..Len(good) :
              j < k => good[j].distance <= good[k].distance
         /\ \A k \in 1..Len(all) :
              k \notin kept =>
                \A j \in 1..Len(good) : good[j].distance <= all[k].distance

\* More than 100 matches, not in order of distance: some are left out.
C22_Witness ==
    /\ MatchesSelected
    /\ Len(obs.matches) > 100
    /\ Len(obs.ret.good) = 100
    /\ \E k \in 1..(Len(obs.matches) - 1) :
         obs.matches[k].distance > obs.matches[k + 1].distance

\* What lines 451-456 store for a reference image.
FeaturesOf(img) ==
    [image_hash  |-> Fingerprint(img),
     keypoints   |-> DetectAndCompute(img).keypoints,
     descriptors |-> DetectAndCompute(img).descriptors]

\* C23: the feature cache only holds data of the reference image. After a
\* call that reached the cache step the cached fingerprint, keypoints and
\* descriptors are those of that call's reference argument, a call that
\* returned before the cache step leaves the cache as it was, and the test
\* image's descriptors are extracted in every call that gets that far and
\* are never stored.
C23_CacheHoldsLastReferenceOnly ==
    /\ ref_image_cache \in {InitialCache} \cup { FeaturesOf(img) : img \in {"A", "B", "D"} }
    /\ FitReturned =>
         LET f == obs.fit
             r == f.r
         IN /\ ref_image_cache = r.cache
            /\ r.reached => (r.cache = FeaturesOf(f.img_ref) /\ r.test_extracted)
            /\ ~r.reached => r.cache = f.before
            /\ (r.reached /\ f.img_test # f.img_ref) =>
                 /\ r.cache.keypoints.of # f.img_test
                 /\ r.cache.descriptors.of # f.img_test

\* A second call with the same reference and another test image: the cache
\* is hit, the test image is processed and the cache still holds the
\* reference.
C23_Witness ==
    /\ FitReturned
    /\ obs.fit.r.reached
    /\ ~obs.fit.r.extracted
    /\ obs.fit.r.test_extracted
    /\ obs.fit.img_test = "C"
    /\ obs.fit.img_ref = "A"
    /\ ref_image_cache = FeaturesOf("A")

\* The template scale loop of the observed call: the positions of the
\* candidate scales whose resized template is not empty and fits in the ROI,
\* the value of each, and the largest of them floored at 0.
SweepFitting ==
    { k \in 1..Len(obs.ret.scales) :
        LET scaled_w == ScaleDim(obs.o.tmpl_w, obs.ret.scales[k])
            scaled_h == ScaleDim(obs.o.tmpl_h, obs.ret.scales[k])
        IN /\ scaled_w > 0 /\ scaled_h > 0
           /\ scaled_w <= obs.ret.roi_w /\ scaled_h <= obs.ret.roi_h }

SweepValue(k) ==
    IF obs.slot.template_method = "TM_SQDIFF_NORMED"
    THEN 1000 - obs.o.vals[k] ELSE obs.o.vals[k]

SweepBest ==
    LET values == {0} \cup { SweepValue(k) : k \in SweepFitting }
    IN CHOOSE v \in values : \A u \in values : u <= v

SweepReaching == { k \in SweepFitting : SweepValue(k) >= SweepBest }

SweepFirst(S) == CHOOSE k \in S : \A j \in S : k <= j

\* C24 as stated: the template score is the largest per-scale value over the
\* candidate scales that fit in the ROI, floored at 0.0, and the reported
\* best scale is the first candidate scale that reaches that score.
C24_BestScaleIsFirstReachingScore ==
    (CheckReturned /\ obs.ret.path = "template") =>
      /\ obs.ret.score = SweepBest
      /\ SweepReaching # {} =>
           obs.ret.best_scale = obs.ret.scales[SweepFirst(SweepReaching)]

\* C24, amended: the score is as stated; the reported best scale is the
\* first fitting candidate scale whose value is the score when the score is
\* above 0.0, and 1.0 when no fitting candidate has a value above 0.0.
C24_BestScaleOrDefault ==
    (CheckReturned /\ obs.ret.path = "template") =>
      /\ obs.ret.score = SweepBest
      /\ SweepBest > 0 =>
           obs.ret.best_scale = obs.ret.scales[SweepFirst(SweepReaching)]
      /\ SweepBest = 0 => obs.ret.best_scale = 100

\* Three candidate scales, the first two with the same positive value, which
\* is the score: the first one is reported.
C24_Witness ==
    /\ CheckReturned
    /\ obs.ret.path = "template"
    /\ Len(obs.ret.scales) = 3
    /\ {1, 2} \subseteq SweepReaching
    /\ obs.ret.score > 0
    /\ obs.ret.best_scale = obs.ret.scales[1]

\* A scale is skipped because its resized template is larger than the ROI.
C24_SkipWitness ==
    /\ CheckReturned
    /\ obs.ret.path = "template"
    /\ \E k \in 1..Len(obs.ret.scales) :
         k \notin SweepFitting /\ obs.o.vals[k] > obs.ret.score

\* Lists add_exclusion_area can leave in a slot: it appends the rectangle
\* drawn, in image coordinates, without any test of its position or size.
ExclusionArea(x, y, w, h) ==
    [x |-> x, y |-> y, w |-> w, h |-> h, shape |-> "exclusion"]

ExclusionLists ==
    { << >>,
      << ExclusionArea(1, 1, 1, 1) >>,
      << ExclusionArea(0, 0, ImgW, ImgH) >>,
      << ExclusionArea(2, 1, 2, 2), ExclusionArea(-3, 0, 1, 9) >> }

\* C25: the result of check_slot does not depend on the slot's
\* exclusion_areas: a slot that differs from the evaluated one only in that
\* list gets the same passed, score, corners and bbox for the same image,
\* homography and library results.
C25_ResultIgnoresExclusionAreas ==
    CheckReturned =>
      \A areas \in ExclusionLists :
        LET other == CheckSlot([obs.slot EXCEPT !.exclusion_areas = areas],
                               obs.m, obs.o)
        IN /\ other.passou = obs.ret.passou
           /\ other.score = obs.ret.score
           /\ other.corners = obs.ret.corners
           /\ other.bbox = obs.ret.bbox

\* A slot that passes with a positive score under a homography, and passes
\* with the same score when an exclusion area covers all of it.
C25_Witness ==
    /\ CheckReturned
    /\ obs.m # NoneM
    /\ obs.ret.scored
    /\ obs.ret.passou
    /\ obs.ret.score > 0
    /\ obs.ret.path \in ScoringPaths
    /\ LET other == CheckSlot([obs.slot EXCEPT !.exclusion_areas =
                                  << ExclusionArea(0, 0, ImgW, ImgH) >>],
                              obs.m, obs.o)
       IN other.passou /\ other.score = obs.ret.score

\* C26: whenever check_slot goes on to extract and score a ROI, the bounding
\* box (x, y, w, h) lies inside the test image with a positive size:
\* x >= 0, y >= 0, w > 0, h > 0, x + w <= W, y + h <= H. A box with a
\* negative or zero width or height is never sliced and scored.
C26_ScoredBboxInsideImage ==
    (CheckReturned /\ obs.ret.scored) =>
      LET x == obs.ret.bbox[1]
          y == obs.ret.bbox[2]
          w == obs.ret.bbox[3]
          h == obs.ret.bbox[4]
      IN /\ x >= 0 /\ y >= 0
         /\ w > 0 /\ h > 0
         /\ x + w <= ImgW /\ y + h <= ImgH

\* The part of C26 that holds: a scored box never starts at a negative
\* coordinate nor ends beyond the image, and a box of zero width or height
\* is never scored.
C26_ScoredBboxNeverZeroNorBeyond ==
    (CheckReturned /\ obs.ret.scored) =>
      /\ obs.ret.bbox[1] >= 0 /\ obs.ret.bbox[2] >= 0
      /\ obs.ret.bbox[3] # 0 /\ obs.ret.bbox[4] # 0
      /\ obs.ret.bbox[1] + obs.ret.bbox[3] <= ImgW
      /\ obs.ret.bbox[2] + obs.ret.bbox[4] <= ImgH
      /\ obs.ret.roi_w > 0 /\ obs.ret.roi_h > 0

\* A slot with the rectangle handed to transform_rectangle.
SlotOfRect(rect) ==
    MkSlot(rect[1], rect[2], rect[3], rect[4], "clip", FALSE,
           "template_matching", 70, "ok", 10, "TM_CCOEFF_NORMED")

\* C27: for every rectangle and homography for which transform_rectangle
\* returns a rectangle, the bounding box check_slot computes inline for a
\* slot with that rectangle, under the same homography and image shape, is
\* that same rectangle; where transform_rectangle returns None for a
\* non-positive clipped size, check_slot's box has the same origin and a
\* non-positive width or height.
C27_InlineBboxIsTransformRectangle ==
    (obs.kind = "transform_rectangle" /\ obs.m # NoneM /\ ~obs.o.raises) =>
      LET inline == CheckSlot(SlotOfRect(obs.slot), obs.m, BaseOracle).bbox
      IN /\ obs.ret # NoneRect => inline = obs.ret
         /\ obs.ret = NoneRect => (inline[3] <= 0 \/ inline[4] <= 0)

\* A homography that puts the corners between pixels and partly outside the
\* image: transform_rectangle returns a clipped rectangle.
C27_Witness ==
    /\ obs.kind = "transform_rectangle"
    /\ obs.m.den = 2
    /\ obs.ret # NoneRect
    /\ obs.ret[1] + obs.ret[3] = ImgW
    /\ CheckSlot(SlotOfRect(obs.slot), obs.m, BaseOracle).bbox = obs.ret

\* C28: in every run_inspection that reaches the final summary, the verdict
\* is APROVADO exactly when the number of recorded results with passou true
\* equals the number of recorded results, and failed = total - passed.
C28_VerdictIffAllRecordedPassed ==
    InspectionDone =>
      LET recorded == inspection_results
          npassed  == Cardinality({ k \in 1..Len(recorded) : recorded[k].passou })
      IN /\ obs.summary.total = Len(recorded)
         /\ obs.summary.passed = npassed
         /\ obs.summary.failed = obs.summary.total - obs.summary.passed
         /\ (obs.summary.final_status = "APROVADO")
              <=> (obs.summary.passed = obs.summary.total)
         /\ obs.summary.final_status \in {"APROVADO", "REPROVADO"}
         /\ (inspection_status_var = "OK") <=> (npassed = Len(recorded))

\* An inspection of two slots in which one slot failed and was dropped by the
\* loop's handler and the other passed and was recorded: one result, one
\* passed, APROVADO.
C28_Witness ==
    /\ InspectionDone
    /\ Len(obs.calls) = 2
    /\ \E k \in 1..2 : obs.calls[k].error
    /\ obs.summary.total = 1
    /\ obs.summary.passed = 1
    /\ obs.summary.final_status = "APROVADO"

\* An inspection with a recorded failure: REPROVADO, failed above 0.
C28_FailWitness ==
    /\ InspectionDone
    /\ obs.summary.final_status = "REPROVADO"
    /\ obs.summary.failed > 0
    /\ obs.summary.passed > 0

\* C29: when run_inspection stops early (reference image, test image or
\* slots missing, or the alignment fails) it calls check_slot for no slot
\* and leaves inspection_results exactly as it was; inspection_results is
\* reset only once the alignment has succeeded.
C29_EarlyStopKeepsResults ==
    [][ /\ (pc = "idle" /\ obs'.kind \in {"inspection_invalid", "inspection_align_fail"})
          => /\ inspection_results' = inspection_results
             /\ obs'.calls = << >>
             /\ pc' = "idle"
        /\ (pc = "idle" /\ obs'.kind = "inspection_invalid") => ValidationFails
        /\ (pc = "idle" /\ obs'.kind = "inspection_align_fail")
          => (~ValidationFails /\ obs'.fit.r.M = NoneM)
        /\ (pc = "idle" /\ pc' = "loop")
          => /\ ~ValidationFails
             /\ M' # NoneM
             /\ obs'.fit.r.M = M'
             /\ inspection_results' = << >> ]_vars

\* The alignment fails in an inspection that follows a completed one: the
\* results of the earlier inspection are still there.
C29_Witness ==
    /\ obs.kind = "inspection_align_fail"
    /\ inspection_results # << >>
    /\ inspection_status_var = "FALHA DE ALINHAMENTO"
    /\ pc = "idle"

\* C30: after any sequence of get_cached_camera (with or without force_new,
\* the device opening or failing), release_cached_camera,
\* cleanup_unused_cameras and release_all_cached_cameras, every camera index
\* that has a last-used timestamp is also in the camera cache, and after
\* release_all_cached_cameras both dicts are empty.
C30_TimestampedCamerasAreCached ==
    /\ DOMAIN camera_last_used \subseteq DOMAIN camera_cache
    /\ obs.kind = "release_all_cached_cameras" =>
         (DOMAIN camera_cache = {} /\ DOMAIN camera_last_used = {})

\* The part of C30 that holds: every cached camera has a timestamp, and
\* release_all_cached_cameras leaves the camera cache empty.
C30_CachedCamerasAreTimestamped ==
    /\ DOMAIN camera_cache \subseteq DOMAIN camera_last_used
    /\ obs.kind = "release_all_cached_cameras" => DOMAIN camera_cache = {}

====
